---------------------------- MODULE Spec2Model ----------------------------
(***************************************************************************)
(* A model of babel.messages.pofile: the escaping and normalization        *)
(* primitives, the location-comment codec and the PoFileParser state       *)
(* machine.                                                                *)
(*                                                                         *)
(* A Python str is a sequence of characters; a character is a TLA+ string. *)
(* Printable characters stand for themselves ("a", "-", "#", ...), the     *)
(* others are named: SP space, TAB, LF, CR, VT (U+000B), BSL backslash,    *)
(* DQ double quote, FSI (U+2068), PDI (U+2069).                            *)
(***************************************************************************)
EXTENDS Integers, Sequences, FiniteSets, TLC

(***************************************************************************)
(* Bounds of the model.                                                    *)
(***************************************************************************)
\* longest string handed to normalize
MaxStrLen == 4
\* widest wrap width handed to normalize
MaxWidth == 5
\* longest string handed to escape
MaxEscLen == 4
\* most lines of an input file
MaxLines == 4
\* most lines of an input file of plural messages
MaxPluralLines == 4
\* longest filename of a location
MaxNameLen == 4
\* greatest line number of a location
MaxLineno == 11
\* longest id and longest translation of a message handed to generate_po
MaxIdLen == 2
\* most messages of a catalog handed to generate_po, the header aside
MaxMessages == 2
\* most obsolete messages of a catalog handed to generate_po
MaxObsolete == 1
\* longest payload of a location comment handed to _extract_locations
MaxPayloadLen == 4

(***************************************************************************)
(* Character classes, as Python's str and re see them.                     *)
(***************************************************************************)
Letters == {"a", "b", "c", "d", "f", "g", "i", "k", "l", "m", "n", "o", "p",
            "r", "s", "t", "u", "v", "w", "x", "y", "z"}

Digits == {"0", "1", "2", "3", "4", "5", "6", "7", "8", "9"}

\* str.isspace / the regex class \s, restricted to the characters of the model
IsSpace(c) == c \in {"SP", "TAB", "LF", "CR", "VT"}

\* the regex class \w
IsWord(c) == c \in Letters \cup Digits \cup {"_"}

\* the regex class [a-zA-Z]
IsAlpha(c) == c \in Letters

\* the regex class [^\s\w]
IsPunct(c) == ~IsSpace(c) /\ ~IsWord(c)

\* the characters str.splitlines treats as a line boundary
IsLineBoundary(c) == c \in {"LF", "CR", "VT"}

(***************************************************************************)
(* Generic helpers on sequences (str methods).                             *)
(***************************************************************************)
Min(S) == CHOOSE x \in S : \A y \in S : x <= y

\* s[i:] for a 1-based i
From(s, i) == SubSeq(s, i, Len(s))

\* ''.join(parts)
RECURSIVE Concat(_)
Concat(parts) ==
    IF parts = <<>> THEN <<>> ELSE Head(parts) \o Concat(Tail(parts))

\* c in s
Contains(s, c) == \E i \in 1..Len(s) : s[i] = c

\* s.startswith(p)
StartsWith(s, p) == Len(s) >= Len(p) /\ SubSeq(s, 1, Len(p)) = p

\* s.endswith(p)
EndsWith(s, p) == Len(s) >= Len(p) /\ SubSeq(s, Len(s) - Len(p) + 1, Len(s)) = p

\* the first position j >= i of s whose character is not in the class,
\* Len(s) + 1 when the run of class characters reaches the end; inclass[j]
\* tells whether s[j] is in the class
RunEnd(s, i, inclass) ==
    Min({j \in i..(Len(s) + 1) : j = Len(s) + 1 \/ ~inclass[j]})

\* s.lstrip()
LStrip(s) == From(s, RunEnd(s, 1, [j \in 1..Len(s) |-> IsSpace(s[j])]))

\* s.strip()
Strip(s) ==
    LET l == LStrip(s)
        keep == {j \in 0..Len(l) : j = 0 \/ ~IsSpace(l[j])}
        last == CHOOSE j \in keep : \A k \in keep : k <= j
    IN  SubSeq(l, 1, last)

\* s[1:-1]
Inner(s) == SubSeq(s, 2, Len(s) - 1)

(***************************************************************************)
(* escape / unescape                                                       *)
(***************************************************************************)
\* str.replace(old, new) for a one-character old
RECURSIVE Replace(_, _, _)
Replace(s, old, new) ==
    IF s = <<>> THEN <<>>
    ELSE (IF Head(s) = old THEN new ELSE <<Head(s)>>) \o Replace(Tail(s), old, new)

\* a plausible slip: backslash is escaped last, after the other replacements
\* have inserted their own backslashes
escape_backslash_last(string) ==
    <<"DQ">> \o
    Replace(Replace(Replace(Replace(Replace(string,
        "TAB", <<"BSL", "t">>),
        "CR", <<"BSL", "r">>),
        "LF", <<"BSL", "n">>),
        "DQ", <<"BSL", "DQ">>),
        "BSL", <<"BSL", "BSL">>)
    \o <<"DQ">>

escape(string) ==
    <<"DQ">> \o
    Replace(Replace(Replace(Replace(Replace(string,
        "BSL", <<"BSL", "BSL">>),
        "TAB", <<"BSL", "t">>),
        "CR", <<"BSL", "r">>),
        "LF", <<"BSL", "n">>),
        "DQ", <<"BSL", "DQ">>)
    \o <<"DQ">>

\* replace_escapes: the replacement for the character after the backslash
replace_escapes(m) ==
    CASE m = "n" -> "LF"
      [] m = "t" -> "TAB"
      [] m = "r" -> "CR"
      [] OTHER -> m

\* a plausible slip: the pattern takes any character after the backslash
RECURSIVE unescape_sub_any(_)
unescape_sub_any(s) ==
    IF s = <<>> THEN <<>>
    ELSE IF Head(s) = "BSL" /\ Len(s) >= 2
         THEN <<replace_escapes(s[2])>> \o unescape_sub_any(Tail(Tail(s)))
         ELSE <<Head(s)>> \o unescape_sub_any(Tail(s))

\* _unescape_re.sub(replace_escapes, s): leftmost non-overlapping matches of
\* a backslash followed by one of \ t r n "
RECURSIVE unescape_sub(_)
unescape_sub(s) ==
    IF s = <<>> THEN <<>>
    ELSE IF Head(s) = "BSL" /\ Len(s) >= 2 /\ s[2] \in {"BSL", "t", "r", "n", "DQ"}
         THEN <<replace_escapes(s[2])>> \o unescape_sub(Tail(Tail(s)))
         ELSE <<Head(s)>> \o unescape_sub(Tail(s))

unescape(string) ==
    IF ~Contains(string, "BSL") THEN Inner(string)
    ELSE unescape_sub(Inner(string))

(***************************************************************************)
(* str.splitlines                                                          *)
(***************************************************************************)
\* the end (inclusive) of the line that starts at i, terminator included
LineEnd(s, i) ==
    LET b == RunEnd(s, i, [j \in 1..Len(s) |-> ~IsLineBoundary(s[j])])
    IN  IF b > Len(s) THEN Len(s)
        ELSE IF s[b] = "CR" /\ b < Len(s) /\ s[b + 1] = "LF" THEN b + 1
        ELSE b

\* string.splitlines(True)
RECURSIVE splitlines_keep(_)
splitlines_keep(s) ==
    IF s = <<>> THEN <<>>
    ELSE LET e == LineEnd(s, 1)
         IN  <<SubSeq(s, 1, e)>> \o splitlines_keep(From(s, e + 1))

\* a line without its terminator
ChopTerminator(l) ==
    IF l # <<>> /\ IsLineBoundary(l[Len(l)])
    THEN IF Len(l) >= 2 /\ l[Len(l) - 1] = "CR" /\ l[Len(l)] = "LF"
         THEN SubSeq(l, 1, Len(l) - 2)
         ELSE SubSeq(l, 1, Len(l) - 1)
    ELSE l

\* string.splitlines()
splitlines(s) ==
    LET ls == splitlines_keep(s)
    IN  [i \in 1..Len(ls) |-> ChopTerminator(ls[i])]

(***************************************************************************)
(* WORD_SEP: the separator pattern of the word wrap.  Each alternative is  *)
(* a function of the start position: 0 when it does not match there, else  *)
(* the position after the match.                                           *)
(***************************************************************************)
\* \s+ : a maximal run of whitespace
sep_whitespace(s, i) ==
    LET e == RunEnd(s, i, [j \in 1..Len(s) |-> IsSpace(s[j])]) IN IF e > i THEN e ELSE 0

\* [^\s\w]*\w+[a-zA-Z]-(?=\w+[a-zA-Z]) : a hyphenated word, up to its hyphen
sep_hyphenated(s, i) ==
    LET word == [j \in 1..Len(s) |-> IsWord(s[j])]
        \* the word starts here
        w == RunEnd(s, i, [j \in 1..Len(s) |-> IsPunct(s[j])])
        \* the hyphen must stand here
        h == RunEnd(s, w, word)
        \* end of the word after the hyphen
        n == RunEnd(s, h + 1, word)
    IN  IF /\ h - w >= 2
           /\ IsAlpha(s[h - 1])
           /\ h <= Len(s)
           /\ s[h] = "-"
           /\ \E j \in (h + 2)..(n - 1) : IsAlpha(s[j])
        THEN h + 1 ELSE 0

\* (?<=[\w\!\"\'\&\.\,\?])-{2,}(?=\w) : an em-dash between words
sep_emdash(s, i) ==
    LET e == RunEnd(s, i, [j \in 1..Len(s) |-> s[j] = "-"])
    IN  IF /\ i > 1
           /\ (IsWord(s[i - 1]) \/ s[i - 1] \in {"!", "DQ", "'", "&", ".", ",", "?"})
           /\ e - i >= 2
           /\ e <= Len(s)
           /\ IsWord(s[e])
        THEN e ELSE 0

\* the three alternatives in the order the pattern lists them
WORD_SEP(s, i) ==
    IF sep_whitespace(s, i) # 0 THEN sep_whitespace(s, i)
    ELSE IF sep_hyphenated(s, i) # 0 THEN sep_hyphenated(s, i)
    ELSE sep_emdash(s, i)

\* WORD_SEP.split(line), continued from position pos: the text before each
\* leftmost match, the match, ..., and the rest (empty pieces included)
RECURSIVE WORD_SEP_split_from(_, _)
WORD_SEP_split_from(s, pos) ==
    LET starts == {i \in pos..Len(s) : WORD_SEP(s, i) # 0}
    IN  IF starts = {} THEN <<SubSeq(s, pos, Len(s))>>
        ELSE LET i == Min(starts)
                 e == WORD_SEP(s, i)
             IN  <<SubSeq(s, pos, i - 1), SubSeq(s, i, e - 1)>>
                 \o WORD_SEP_split_from(s, e)

WORD_SEP_split(line) == WORD_SEP_split_from(line, 1)

(***************************************************************************)
(* normalize / denormalize                                                 *)
(***************************************************************************)
\* the inner loop of normalize: fill buf with the chunks that fit; the
\* result is <<buf, the chunks left>>
RECURSIVE fill_buf(_, _, _, _, _)
fill_buf(chunks, buf, size, prefixlen, width) ==
    IF chunks = <<>> THEN <<buf, chunks>>
    ELSE LET length == Len(escape(Head(chunks))) - 2 + prefixlen
         IN  IF size + length < width
             THEN fill_buf(Tail(chunks), Append(buf, Head(chunks)),
                           size + length, prefixlen, width)
             ELSE IF buf = <<>>
                  THEN <<<<Head(chunks)>>, Tail(chunks)>>
                  ELSE <<buf, chunks>>

\* the outer loop of normalize: one physical line per filled buf
RECURSIVE wrap_chunks(_, _, _)
wrap_chunks(chunks, prefixlen, width) ==
    IF chunks = <<>> THEN <<>>
    ELSE LET r == fill_buf(chunks, <<>>, 2, prefixlen, width)
         IN  <<Concat(r[1])>> \o wrap_chunks(r[2], prefixlen, width)

\* the physical lines of one input line
wrap_line(line, prefixlen, width) ==
    IF Len(escape(line)) + prefixlen > width
    THEN wrap_chunks(WORD_SEP_split(line), prefixlen, width)
    ELSE <<line>>

\* the physical lines of the whole string, before the trailing-line fix
normalize_lines(string, prefix, width) ==
    LET src == splitlines_keep(string)
    IN  IF width > 0
        THEN Concat([i \in 1..Len(src) |-> wrap_line(src[i], Len(prefix), width)])
        ELSE src

\* '\n'.join(parts)
RECURSIVE JoinLF(_)
JoinLF(parts) ==
    IF parts = <<>> THEN <<>>
    ELSE IF Len(parts) = 1 THEN parts[1]
    ELSE parts[1] \o <<"LF">> \o JoinLF(Tail(parts))

normalize(string, prefix, width) ==
    LET lines == normalize_lines(string, prefix, width)
        n == Len(lines)
        fixed == IF n > 0 /\ lines[n] = <<>>
                 THEN [i \in 1..(n - 1) |->
                          IF i = n - 1 THEN lines[i] \o <<"LF">> ELSE lines[i]]
                 ELSE lines
    IN  IF n <= 1 THEN escape(string)
        ELSE <<"DQ", "DQ", "LF">>
             \o JoinLF([i \in 1..Len(fixed) |-> prefix \o escape(fixed[i])])

denormalize(string) ==
    IF Contains(string, "LF")
    THEN LET all == splitlines(string)
             escaped_lines == IF StartsWith(string, <<"DQ", "DQ">>)
                              THEN Tail(all) ELSE all
         IN  Concat([i \in 1..Len(escaped_lines) |-> unescape(escaped_lines[i])])
    ELSE unescape(string)

(***************************************************************************)
(* int() and the :d format, on decimal digit strings.                      *)
(***************************************************************************)
DigitValue(c) ==
    CASE c = "0" -> 0 [] c = "1" -> 1 [] c = "2" -> 2 [] c = "3" -> 3
      [] c = "4" -> 4 [] c = "5" -> 5 [] c = "6" -> 6 [] c = "7" -> 7
      [] c = "8" -> 8 [] c = "9" -> 9

DigitChar(d) ==
    CASE d = 0 -> "0" [] d = 1 -> "1" [] d = 2 -> "2" [] d = 3 -> "3"
      [] d = 4 -> "4" [] d = 5 -> "5" [] d = 6 -> "6" [] d = 7 -> "7"
      [] d = 8 -> "8" [] d = 9 -> "9"

\* the value of a non-empty run of digits
RECURSIVE DigitsValue(_)
DigitsValue(ds) ==
    IF ds = <<>> THEN 0
    ELSE 10 * DigitsValue(SubSeq(ds, 1, Len(ds) - 1)) + DigitValue(ds[Len(ds)])

\* int(s): <<TRUE, value>>, or <<FALSE, 0>> where Python raises ValueError.
\* Surrounding whitespace and one sign are accepted; single underscores
\* between digits are skipped.
int(s) ==
    LET t == Strip(s)
        signed == t # <<>> /\ t[1] \in {"+", "-"}
        body == IF signed THEN Tail(t) ELSE t
        ok == /\ body # <<>>
              /\ \A i \in 1..Len(body) :
                    \/ body[i] \in Digits
                    \/ /\ body[i] = "_"
                       /\ i > 1 /\ i < Len(body)
                       /\ body[i - 1] \in Digits /\ body[i + 1] \in Digits
        v == DigitsValue(SelectSeq(body, LAMBDA c : c \in Digits))
    IN  IF ~ok THEN <<FALSE, 0>>
        ELSE IF signed /\ t[1] = "-" THEN <<TRUE, 0 - v>> ELSE <<TRUE, v>>

\* f"{n:d}" for n >= 0
RECURSIVE format_d(_)
format_d(n) ==
    IF n < 10 THEN <<DigitChar(n)>>
    ELSE format_d(n \div 10) \o <<DigitChar(n % 10)>>

(***************************************************************************)
(* The location-comment codec.  A line number is an option: {} is None,    *)
(* {n} is the integer n.                                                   *)
(***************************************************************************)
\* line.lstrip().split(): the maximal runs of non-whitespace
RECURSIVE split_whitespace(_)
split_whitespace(s) ==
    LET t == LStrip(s)
    IN  IF t = <<>> THEN <<>>
        ELSE LET e == RunEnd(t, 1, [j \in 1..Len(t) |-> ~IsSpace(t[j])])
             IN  <<SubSeq(t, 1, e - 1)>> \o split_whitespace(From(t, e))

\* the texts of the two ValueErrors _extract_locations raises
MoreFSI == "location comment contains more First Strong Isolate characters, than Pop Directional Isolate characters"

MorePDI == "location comment contains more Pop Directional Isolate characters, than First Strong Isolate characters"

\* the outcome of a call that raised ValueError(msg)
ValueError(msg) == [ok |-> FALSE, error |-> msg]

\* the character loop of _extract_locations, from the state
\* (locations, location, in_filename); ok = FALSE where ValueError is raised
RECURSIVE extract_scan(_, _, _, _)
extract_scan(line, locations, location, in_filename) ==
    IF line = <<>>
    THEN IF location # <<>>
         THEN IF in_filename THEN ValueError(MoreFSI)
              ELSE [ok |-> TRUE, locations |-> Append(locations, location)]
         ELSE [ok |-> TRUE, locations |-> locations]
    ELSE LET c == Head(line)
             rest == Tail(line)
         IN  IF c = "FSI"
             THEN IF in_filename THEN ValueError(MoreFSI)
                  ELSE extract_scan(rest, locations, location, TRUE)
             ELSE IF c = "PDI"
             THEN IF ~in_filename THEN ValueError(MorePDI)
                  ELSE extract_scan(rest, locations, location, FALSE)
             ELSE IF c = "SP"
             THEN IF in_filename
                  THEN extract_scan(rest, locations, Append(location, c), in_filename)
                  ELSE IF location # <<>>
                       THEN extract_scan(rest, Append(locations, location), <<>>, in_filename)
                       ELSE extract_scan(rest, locations, location, in_filename)
             ELSE extract_scan(rest, locations, Append(location, c), in_filename)

_extract_locations(line) ==
    IF ~Contains(line, "FSI") /\ ~Contains(line, "PDI")
    THEN [ok |-> TRUE, locations |-> split_whitespace(line)]
    ELSE extract_scan(line, <<>>, <<>>, FALSE)

\* a plausible slip: the closing marker is left out
_enclose_filename_open_only(filename) ==
    IF ~Contains(filename, "SP") /\ ~Contains(filename, "TAB") THEN filename
    ELSE <<"FSI">> \o filename

_enclose_filename_if_necessary(filename) ==
    IF ~Contains(filename, "SP") /\ ~Contains(filename, "TAB") THEN filename
    ELSE LET opened == IF StartsWith(filename, <<"FSI">>) THEN filename
                       ELSE <<"FSI">> \o filename
         IN  IF EndsWith(opened, <<"PDI">>) THEN opened
             ELSE opened \o <<"PDI">>

\* the location generate_po writes for (filename, lineno), with
\* include_lineno on; os.sep is "/" already
format_location(filename, lineno) ==
    LET location == _enclose_filename_if_necessary(filename)
    IN  IF lineno # {} /\ lineno # {0}
        THEN location \o <<":">> \o format_d(CHOOSE n \in lineno : TRUE)
        ELSE location

\* location.rpartition(':'): <<a, colon, b>>
rpartition_colon(location) ==
    LET cols == {i \in 1..Len(location) : location[i] = ":"}
    IN  IF cols = {} THEN <<<<>>, <<>>, location>>
        ELSE LET i == CHOOSE k \in cols : \A j \in cols : j <= k
             IN  <<SubSeq(location, 1, i - 1), <<":">>, From(location, i + 1)>>

\* a plausible slip: a token whose line number does not parse is kept, as a
\* filename without line number
location_entry_filename_only(location) ==
    LET parts == rpartition_colon(location)
    IN  IF parts[2] # <<>> /\ int(parts[3])[1]
        THEN << <<parts[1], {int(parts[3])[2]}>> >>
        ELSE << <<location, {}>> >>

\* what _process_comment appends to self.locations for one location token:
\* one pair, or nothing where int() fails
location_entry(location) ==
    LET parts == rpartition_colon(location)
    IN  IF parts[2] # <<>>
        THEN IF int(parts[3])[1]
             THEN << <<parts[1], {int(parts[3])[2]}>> >>
             ELSE <<>>
        ELSE << <<location, {}>> >>

\* the pairs appended for all the tokens of a location payload
location_entries(locations) ==
    Concat([i \in 1..Len(locations) |-> location_entry(locations[i])])

(***************************************************************************)
(* _NormalizedString: the list of the stripped, still escaped fragments of *)
(* one value.                                                              *)
(***************************************************************************)
\* _NormalizedString(arg)
_NormalizedString(arg) == <<Strip(arg)>>

\* _NormalizedString.denormalize
ns_denormalize(ns) == Concat([i \in 1..Len(ns) |-> unescape(ns[i])])

(***************************************************************************)
(* The order sorted() puts the collected translations in: by index, then   *)
(* by the fragment lists, compared as Python compares lists of str.        *)
(***************************************************************************)
\* the characters of the model in code point order
CodePoints ==
    <<"TAB", "LF", "VT", "CR", "SP", "!", "DQ", "#", "&", "'", "+", ",", "-",
      ".", "0", "1", "2", "3", "4", "5", "6", "7", "8", "9", ":", "?", "[",
      "BSL", "]", "_", "a", "b", "c", "d", "f", "g", "i", "k", "l", "m", "n",
      "o", "p", "r", "s", "t", "u", "v", "w", "x", "y", "z", "~", "FSI", "PDI">>

ord(c) == CHOOSE i \in 1..Len(CodePoints) : CodePoints[i] = c

\* a < b for two str
RECURSIVE str_lt(_, _)
str_lt(a, b) ==
    IF b = <<>> THEN FALSE
    ELSE IF a = <<>> THEN TRUE
    ELSE IF Head(a) = Head(b) THEN str_lt(Tail(a), Tail(b))
    ELSE ord(Head(a)) < ord(Head(b))

\* a < b for two lists of str
RECURSIVE list_lt(_, _)
list_lt(a, b) ==
    IF b = <<>> THEN FALSE
    ELSE IF a = <<>> THEN TRUE
    ELSE IF Head(a) = Head(b) THEN list_lt(Tail(a), Tail(b))
    ELSE str_lt(Head(a), Head(b))

\* a < b for two [idx, translation] entries
entry_lt(a, b) == a[1] < b[1] \/ (a[1] = b[1] /\ list_lt(a[2], b[2]))

\* the list with entry e put before the first entry greater than it
RECURSIVE insert_sorted(_, _)
insert_sorted(sortedlist, e) ==
    IF sortedlist = <<>> THEN <<e>>
    ELSE IF entry_lt(e, Head(sortedlist)) THEN <<e>> \o sortedlist
    ELSE <<Head(sortedlist)>> \o insert_sorted(Tail(sortedlist), e)

\* sorted(self.translations)
RECURSIVE sorted(_)
sorted(translations) ==
    IF translations = <<>> THEN <<>>
    ELSE insert_sorted(sorted(SubSeq(translations, 1, Len(translations) - 1)),
                       translations[Len(translations)])

(***************************************************************************)
(* PoFileParser.  Its methods are functions of the machine m:              *)
(*   m.self     the fields of the parser object                            *)
(*   m.catalog  num_plurals and, in order, the messages the parser         *)
(*              assigned to the catalog (live) and to catalog.obsolete     *)
(*   m.stdout   the warnings printed                                       *)
(*   m.raised   the exception that left parse, NoExc while none did        *)
(* A method that finds m.raised set does nothing more.                     *)
(***************************************************************************)
\* the number of plural forms of the catalog handed to the parser
NumPlurals == 2

NoExc == [type |-> "none"]

MissingMsgstr == "missing msgstr for msgid"

TooManyTranslations == "msg has more translations than num_plurals of catalog"

UnknownKeyword == "Unknown or misformatted keyword"

StrayContinuation == "Got line starting with \" but not in msgid, msgstr or msgctxt"

\* a plausible slip: the problem is always only printed
_invalid_pofile_never_raises(m, line, lineno, msg) ==
    [m EXCEPT !.stdout = Append(@, [msg |-> msg, lineno |-> lineno + 1, line |-> line])]

_invalid_pofile(m, line, lineno, msg) ==
    IF m.self.abort_invalid
    THEN [m EXCEPT !.raised = [type |-> "PoFileError", msg |-> msg,
                               line |-> line, lineno |-> lineno]]
    ELSE [m EXCEPT !.stdout = Append(@, [msg |-> msg, lineno |-> lineno + 1,
                                         line |-> line])]

_reset_message_state(self) ==
    [self EXCEPT !.messages = <<>>, !.translations = <<>>, !.locations = <<>>,
                 !.flags = <<>>, !.user_comments = <<>>, !.auto_comments = <<>>,
                 !.context = <<>>, !.obsolete = FALSE, !.in_msgid = FALSE,
                 !.in_msgstr = FALSE, !.in_msgctxt = FALSE]

\* the loop of _add_message over the sorted translations of a plural
\* message: the result is <<m, string>>
RECURSIVE plural_strings(_, _, _)
plural_strings(m, string, entries) ==
    IF entries = <<>> \/ m.raised # NoExc THEN <<m, string>>
    ELSE LET idx == Head(entries)[1]
             translation == Head(entries)[2]
             n == m.catalog.num_plurals
         IN  IF idx >= n
             THEN plural_strings(
                      _invalid_pofile(m, <<>>, m.self.offset, TooManyTranslations),
                      string, Tail(entries))
             ELSE IF idx < 0 - n
             THEN <<[m EXCEPT !.raised = [type |-> "IndexError"]], string>>
             ELSE plural_strings(
                      m,
                      [string EXCEPT ![IF idx >= 0 THEN idx + 1 ELSE n + idx + 1] =
                                         ns_denormalize(translation)],
                      Tail(entries))

\* Message(msgid, string, ...) as _add_message builds it; is_plural tells a
\* tuple id and string from a str id and string
Message(self, is_plural, msgid, string) ==
    [id |-> msgid, string |-> string, is_plural |-> is_plural,
     locations |-> self.locations, flags |-> self.flags,
     auto_comments |-> self.auto_comments,
     user_comments |-> self.user_comments,
     lineno |-> self.offset + 1,
     context |-> IF self.context # <<>>
                 THEN <<ns_denormalize(self.context[1])>> ELSE <<>>]

\* a plausible slip: an obsolete message is stored like a live one
store_message_always_live(m, message) ==
    [m EXCEPT !.catalog.live = Append(@, message)]

\* the tail of _add_message: store the message where its obsolete tag says
store_message(m, message) ==
    IF m.self.obsolete
    THEN IF ~m.self.ignore_obsolete
         THEN [m EXCEPT !.catalog.obsolete = Append(@, message)]
         ELSE m
    ELSE [m EXCEPT !.catalog.live = Append(@, message)]

\* the end of _add_message: the message is stored, counted and the state
\* of the parser reset
add_stored(m) ==
    [m EXCEPT !.self = _reset_message_state([m.self EXCEPT !.counter = @ + 1])]

\* _add_message from the point where msgid and string are known
add_built(m, is_plural, msgid, string) ==
    add_stored(store_message(m, Message(m.self, is_plural, msgid, string)))

\* _add_message of a plural message once its translations are placed;
\* filled is the result of plural_strings
add_plural(filled) ==
    IF filled[1].raised # NoExc THEN filled[1]
    ELSE add_built(filled[1], TRUE,
                   [i \in 1..Len(filled[1].self.messages) |->
                       ns_denormalize(filled[1].self.messages[i])],
                   filled[2])

_add_message(m) ==
    IF Len(m.self.messages) > 1
    THEN add_plural(plural_strings(m,
                        [i \in 1..m.catalog.num_plurals |-> <<>>],
                        sorted(m.self.translations)))
    ELSE add_built(m, FALSE,
                   <<ns_denormalize(m.self.messages[1])>>,
                   <<ns_denormalize(m.self.translations[1][2])>>)

\* the branch of _finish_current_message for a message without msgstr; m1
\* is the machine after _invalid_pofile
empty_translation(m1) ==
    IF m1.raised # NoExc THEN m1
    ELSE [m1 EXCEPT !.self.translations = Append(@, <<0, <<>>>>)]

\* _add_message, unless an exception is on its way
add_unless_raised(m) ==
    IF m.raised # NoExc THEN m ELSE _add_message(m)

_finish_current_message(m) ==
    IF m.self.messages # <<>>
    THEN add_unless_raised(
             IF m.self.translations = <<>>
             THEN empty_translation(
                      _invalid_pofile(m, <<>>, m.self.offset, MissingMsgstr))
             ELSE m)
    ELSE m

\* line.partition(sep) for a one-character sep: <<before, sep, after>>
partition(line, sep) ==
    LET at == {i \in 1..Len(line) : line[i] = sep}
    IN  IF at = {} THEN <<line, <<>>, <<>>>>
        ELSE <<SubSeq(line, 1, Min(at) - 1), <<sep>>, From(line, Min(at) + 1)>>

KW_msgid == <<"m", "s", "g", "i", "d">>

KW_msgid_plural == KW_msgid \o <<"_", "p", "l", "u", "r", "a", "l">>

KW_msgctxt == <<"m", "s", "g", "c", "t", "x", "t">>

KW_msgstr == <<"m", "s", "g", "s", "t", "r">>

\* the msgstr branch of _process_keyword_line
keyword_msgstr(m, keyword, arg) ==
    LET parts == partition(keyword, "[")
        has_bracket == parts[2] # <<>>
        idxarg == parts[3]
        parsed == IF has_bracket
                  THEN int(SubSeq(idxarg, 1, Len(idxarg) - 1))
                  ELSE <<TRUE, 0>>
        s == IF arg # <<"DQ", "DQ">> THEN _NormalizedString(arg) ELSE <<>>
        m1 == [m EXCEPT !.self.in_msgid = FALSE, !.self.in_msgstr = TRUE]
    IN  IF ~parsed[1]
        THEN [m1 EXCEPT !.raised = [type |-> "ValueError"]]
        ELSE [m1 EXCEPT !.self.translations = Append(@, <<parsed[2], s>>)]

\* a plausible slip: a msgctxt line does not finalize the message before it
keyword_finish_msgid_only(m, keyword) ==
    IF keyword = KW_msgid
    THEN _finish_current_message(m) ELSE m

\* the first step of _process_keyword_line
keyword_finish(m, keyword) ==
    IF keyword \in {KW_msgid, KW_msgctxt}
    THEN _finish_current_message(m) ELSE m

\* _process_keyword_line after its first step; m1 is the machine that
\* step left
keyword_dispatch(m1, lineno, line, keyword, arg) ==
    IF keyword \in {KW_msgid, KW_msgid_plural}
    THEN [m1 EXCEPT !.self.in_msgctxt = FALSE, !.self.in_msgid = TRUE,
                    !.self.messages = Append(@, _NormalizedString(arg))]
    ELSE IF keyword = KW_msgctxt
    THEN [m1 EXCEPT !.self.in_msgctxt = TRUE,
                    !.self.context = <<_NormalizedString(arg)>>]
    ELSE IF keyword = KW_msgstr \/ StartsWith(keyword, KW_msgstr \o <<"[">>)
    THEN keyword_msgstr(m1, keyword, arg)
    ELSE _invalid_pofile(m1, line, lineno, UnknownKeyword)

\* a plausible slip: the offset is taken at every id line, msgid_plural
\* included
keyword_tagged_offset_every_id(m1, lineno, line, keyword, arg, obsolete) ==
    IF m1.raised # NoExc THEN m1
    ELSE keyword_dispatch(
             [m1 EXCEPT !.self.obsolete = obsolete,
                        !.self.offset = IF keyword \in {KW_msgid, KW_msgid_plural}
                                        THEN lineno ELSE @],
             lineno, line, keyword, arg)

\* the assignments of _process_keyword_line to self.obsolete and
\* self.offset, then the dispatch on the keyword
keyword_tagged(m1, lineno, line, keyword, arg, obsolete) ==
    IF m1.raised # NoExc THEN m1
    ELSE keyword_dispatch(
             [m1 EXCEPT !.self.obsolete = obsolete,
                        !.self.offset = IF keyword = KW_msgid THEN lineno ELSE @],
             lineno, line, keyword, arg)

_process_keyword_line(m, lineno, line, obsolete) ==
    keyword_tagged(keyword_finish(m, partition(line, "SP")[1]),
                   lineno, line,
                   partition(line, "SP")[1], partition(line, "SP")[3], obsolete)

\* a plausible slip: a continuation line outside msgid, msgstr and msgctxt
\* is skipped in silence
_process_string_continuation_line_unreported(m, line, lineno) ==
    LET self == m.self
        n == Len(self.messages)
        k == Len(self.translations)
    IN  IF self.in_msgid
        THEN [m EXCEPT !.self.messages[n] = Append(@, Strip(line))]
        ELSE IF self.in_msgstr
        THEN [m EXCEPT !.self.translations[k][2] = Append(@, Strip(line))]
        ELSE IF self.in_msgctxt
        THEN [m EXCEPT !.self.context[1] = Append(@, Strip(line))]
        ELSE m

_process_string_continuation_line(m, line, lineno) ==
    LET self == m.self
        n == Len(self.messages)
        k == Len(self.translations)
    IN  IF self.in_msgid
        THEN [m EXCEPT !.self.messages[n] = Append(@, Strip(line))]
        ELSE IF self.in_msgstr
        THEN [m EXCEPT !.self.translations[k][2] = Append(@, Strip(line))]
        ELSE IF self.in_msgctxt
        THEN [m EXCEPT !.self.context[1] = Append(@, Strip(line))]
        ELSE _invalid_pofile(m, line, lineno, StrayContinuation)

_process_message_line(m, lineno, line, obsolete) ==
    IF line = <<>> THEN m
    ELSE IF line[1] = "DQ"
    THEN _process_string_continuation_line(m, line, lineno)
    ELSE _process_keyword_line(m, lineno, line, obsolete)

\* line.split(',') with every piece stripped
RECURSIVE split_flags(_)
split_flags(s) ==
    LET parts == partition(s, ",")
    IN  IF parts[2] = <<>> THEN <<Strip(s)>>
        ELSE <<Strip(parts[1])>> \o split_flags(parts[3])

\* the "#:" branch of _process_comment; extracted is the outcome of
\* _extract_locations
comment_locations(m1, extracted) ==
    IF extracted.ok
    THEN [ok |-> TRUE,
          m |-> [m1 EXCEPT !.self.locations =
                              @ \o location_entries(extracted.locations)]]
    ELSE [ok |-> FALSE, m |-> m1, error |-> extracted.error]

\* _process_comment after _finish_current_message left the machine m1
comment_dispatch(m1, line, prefix, payload) ==
    IF m1.raised # NoExc THEN [ok |-> TRUE, m |-> m1]
    ELSE IF prefix = <<"#", ":">>
    THEN comment_locations(m1, _extract_locations(payload))
    ELSE IF prefix = <<"#", ",">>
    THEN [ok |-> TRUE,
          m |-> [m1 EXCEPT !.self.flags = @ \o split_flags(LStrip(payload))]]
    ELSE IF prefix = <<"#", ".">>
    THEN [ok |-> TRUE,
          m |-> IF Strip(payload) # <<>>
                THEN [m1 EXCEPT !.self.auto_comments = Append(@, Strip(payload))]
                ELSE m1]
    ELSE [ok |-> TRUE,
          m |-> [m1 EXCEPT !.self.user_comments = Append(@, Strip(Tail(line)))]]

\* a plausible slip: a comment does not finalize the message in progress
_process_comment_unfinished(m, line) ==
    comment_dispatch(m, line,
                     SubSeq(line, 1, Min({2, Len(line)})), From(line, 3))

\* _process_comment; ok = FALSE where the ValueError of _extract_locations
\* leaves it, with m as it is at that moment
_process_comment(m, line) ==
    comment_dispatch(_finish_current_message(m), line,
                     SubSeq(line, 1, Min({2, Len(line)})), From(line, 3))

\* the except clause of the loop of parse around _process_comment; r is the
\* outcome of _process_comment
comment_outcome(r, lineno, line) ==
    IF r.ok THEN r.m ELSE _invalid_pofile(r.m, line, lineno, r.error)

\* a plausible slip: an unbalanced location comment is skipped in silence
comment_line_unreported(m, lineno, line) ==
    _process_comment(m, line).m

\* the comment branch of the loop of parse: the ValueError of a comment is
\* handed to _invalid_pofile
comment_line(m, lineno, line) ==
    comment_outcome(_process_comment(m, line), lineno, line)

\* the loop of parse on a stripped line
parse_stripped(m, lineno, line) ==
    IF line = <<>> THEN m
    ELSE IF line[1] = "#" /\ ~StartsWith(line, <<"#", "~">>)
    THEN comment_line(m, lineno, line)
    ELSE _process_message_line(
             m, lineno,
             IF line[1] = "#" THEN LStrip(From(line, 3)) ELSE line,
             line[1] = "#")

\* the body of the loop of parse for the line with 0-based number lineno
parse_line(m, lineno, rawline) ==
    parse_stripped(m, lineno, Strip(rawline))

\* the condition under which parse synthesizes the header message
header_needed(self) ==
    /\ self.counter = 0
    /\ (self.flags # <<>> \/ self.user_comments # <<>> \/ self.auto_comments # <<>>)

\* the header message parse synthesizes; m1 is the machine after the last
\* _finish_current_message
parse_header(m1) ==
    IF m1.raised # NoExc THEN m1
    ELSE IF header_needed(m1.self)
    THEN _add_message(
             [m1 EXCEPT !.self.messages = Append(@, <<>>),
                        !.self.translations = Append(@, <<0, <<>>>>)])
    ELSE m1

\* what parse does after the last line
parse_end(m) ==
    parse_header(_finish_current_message(m))

\* PoFileParser.__init__
PoFileParser(ignore_obsolete, abort_invalid) ==
    _reset_message_state(
        [ignore_obsolete |-> ignore_obsolete, abort_invalid |-> abort_invalid,
         counter |-> 0, offset |-> 0,
         messages |-> <<>>, translations |-> <<>>, locations |-> <<>>,
         flags |-> <<>>, user_comments |-> <<>>, auto_comments |-> <<>>,
         context |-> <<>>, obsolete |-> FALSE, in_msgid |-> FALSE,
         in_msgstr |-> FALSE, in_msgctxt |-> FALSE])

\* an empty catalog, as read_po creates it
Catalog == [num_plurals |-> NumPlurals, live |-> <<>>, obsolete |-> <<>>]

\* the machine at the start of parse
NewMachine(ignore_obsolete, abort_invalid) ==
    [self |-> PoFileParser(ignore_obsolete, abort_invalid),
     catalog |-> Catalog, stdout |-> <<>>, raised |-> NoExc]

\* the machine after the lines of fileobj from number lineno on
RECURSIVE parse_lines(_, _, _)
parse_lines(m, lineno, fileobj) ==
    IF m.raised # NoExc THEN m
    ELSE IF fileobj = <<>> THEN parse_end(m)
    ELSE parse_lines(parse_line(m, lineno, Head(fileobj)), lineno + 1, Tail(fileobj))

(***************************************************************************)
(* TextWrapper of babel.util, as generate_po uses it: it comes with a      *)
(* width and breaks no long word.  The text is cut into runs of whitespace *)
(* and runs of other characters, and the runs are packed greedily into     *)
(* lines; whitespace at the start of a later line and at the end of a line *)
(* is dropped.                                                             *)
(***************************************************************************)
\* the last position of the run of like characters that starts at i
RECURSIVE chunk_end(_, _)
chunk_end(text, i) ==
    IF i < Len(text) /\ IsSpace(text[i + 1]) = IsSpace(text[i])
    THEN chunk_end(text, i + 1) ELSE i

\* the runs of whitespace and of other characters of text, whitespace
\* turned into spaces
RECURSIVE TextWrapper_split(_)
TextWrapper_split(text) ==
    IF text = <<>> THEN <<>>
    ELSE LET end == chunk_end(text, 1)
         IN  << [i \in 1..end |-> IF IsSpace(text[i]) THEN "SP" ELSE text[i]] >>
                 \o TextWrapper_split(From(text, end + 1))

\* a chunk of whitespace
IsBlankChunk(chunk) == \A i \in 1..Len(chunk) : chunk[i] = "SP"

\* the chunks that fit on the line after cur, and the chunks left over
RECURSIVE TextWrapper_fill(_, _, _, _)
TextWrapper_fill(chunks, cur, cur_len, w) ==
    IF chunks # <<>> /\ cur_len + Len(Head(chunks)) <= w
    THEN TextWrapper_fill(Tail(chunks), Append(cur, Head(chunks)),
                          cur_len + Len(Head(chunks)), w)
    ELSE <<cur, chunks>>

\* a chunk longer than the line goes on a line of its own, unbroken
TextWrapper_long_word(filled, w) ==
    IF filled[1] = <<>> /\ filled[2] # <<>> /\ Len(Head(filled[2])) > w
    THEN << <<Head(filled[2])>>, Tail(filled[2]) >>
    ELSE filled

\* whitespace at the end of the line is dropped
TextWrapper_drop_trailing(filled) ==
    IF filled[1] # <<>> /\ IsBlankChunk(filled[1][Len(filled[1])])
    THEN <<SubSeq(filled[1], 1, Len(filled[1]) - 1), filled[2]>>
    ELSE filled

\* lines with the line made of the chunks cur, if there are any
TextWrapper_append(lines, indent, cur) ==
    IF cur # <<>> THEN Append(lines, indent \o Concat(cur)) ELSE lines

\* whitespace at the start of a line other than the first is dropped
TextWrapper_drop_leading(chunks, lines) ==
    IF lines # <<>> /\ IsBlankChunk(Head(chunks)) THEN Tail(chunks) ELSE chunks

\* the lines of the chunks, after the lines already made
RECURSIVE TextWrapper_wrap_chunks(_, _, _, _)
TextWrapper_wrap_chunks(chunks, lines, width, subsequent_indent) ==
    IF chunks = <<>> THEN lines
    ELSE LET indent == IF lines # <<>> THEN subsequent_indent ELSE <<>>
             w == width - Len(indent)
             filled == TextWrapper_drop_trailing(TextWrapper_long_word(
                           TextWrapper_fill(TextWrapper_drop_leading(chunks, lines),
                                            <<>>, 0, w), w))
         IN  TextWrapper_wrap_chunks(filled[2],
                                     TextWrapper_append(lines, indent, filled[1]),
                                     width, subsequent_indent)

\* TextWrapper(width, subsequent_indent, break_long_words=False).wrap(text)
TextWrapper_wrap(text, width, subsequent_indent) ==
    TextWrapper_wrap_chunks(TextWrapper_split(text), <<>>, width, subsequent_indent)

(***************************************************************************)
(* generate_po.  A message of the catalog is a record like the one the     *)
(* parser builds, with flags a set and with previous_id, the tuple of the  *)
(* previous ids (empty where there is none).  The catalog is handed over   *)
(* as the list of its messages in iteration order, the list of its         *)
(* obsolete messages, num_plurals and header_comment.  os.sep is "/".      *)
(***************************************************************************)
\* the width of comments when width disables wrapping
DefaultCommentWidth == 76

\* comment_width
comment_width(width) == IF width > 0 THEN width ELSE DefaultCommentWidth

\* _format_comment(comment, prefix), comments wrapped at comment_width
_format_comment(comment, prefix, cwidth) ==
    LET lines == TextWrapper_wrap(comment, cwidth, <<>>)
    IN  [i \in 1..Len(lines) |->
            <<"#">> \o prefix \o <<"SP">> \o Strip(lines[i]) \o <<"LF">>]

(* What a round of the loops yields is first listed as items, in order,    *)
(* and the items are then turned into fragments:                           *)
(*   a comment item     _format_comment(value, prefix)                     *)
(*   a previous-id item _format_comment(f"{keyword} {normalize(value)}",   *)
(*                      prefix)                                            *)
(*   a keyword item     f"{prefix}{keyword} {normalize(value, prefix)}\n"  *)
(*   a raw item         value                                              *)
comment_item(prefix, comment) ==
    [kind |-> "comment", prefix |-> prefix, keyword |-> <<>>, value |-> comment]

previous_item(keyword, value) ==
    [kind |-> "previous", prefix |-> <<"|">>, keyword |-> keyword, value |-> value]

keyword_item(prefix, keyword, value) ==
    [kind |-> "keyword", prefix |-> prefix, keyword |-> keyword, value |-> value]

raw_item(fragment) ==
    [kind |-> "raw", prefix |-> <<>>, keyword |-> <<>>, value |-> fragment]

\* the items of the comments of a list
comment_items(comments, prefix) ==
    [i \in 1..Len(comments) |-> comment_item(prefix, comments[i])]

\* the text of an item: its value, normalized behind its keyword where the
\* item has one
item_text(item, width) ==
    IF item.kind \in {"keyword", "previous"}
    THEN item.keyword \o <<"SP">>
           \o normalize(item.value,
                        IF item.kind = "keyword" THEN item.prefix ELSE <<>>, width)
    ELSE item.value

\* the fragments of an item whose text is text
item_fragments(item, text, cwidth) ==
    IF item.kind \in {"comment", "previous"}
    THEN _format_comment(text, item.prefix, cwidth)
    ELSE IF item.kind = "keyword" THEN <<item.prefix \o text \o <<"LF">>>>
    ELSE <<text>>

\* the fragments of a list of items
fragments_of(items, width) ==
    Concat([i \in 1..Len(items) |->
               item_fragments(items[i], item_text(items[i], width),
                              comment_width(width))])

\* the msgctxt line, if the message has a context
context_items(message, prefix) ==
    IF message.context # <<>> /\ message.context[1] # <<>>
    THEN <<keyword_item(prefix, KW_msgctxt, message.context[1])>>
    ELSE <<>>

\* message.string[idx], '' on IndexError
plural_string(message, idx) ==
    IF idx + 1 <= Len(message.string) THEN message.string[idx + 1] ELSE <<>>

\* the msgstr[idx] lines for idx in range(num_plurals)
plural_items(message, prefix, num_plurals) ==
    [i \in 1..num_plurals |->
        keyword_item(prefix, KW_msgstr \o <<"[">> \o format_d(i - 1) \o <<"]">>,
                     plural_string(message, i - 1))]

\* _format_message(message, prefix)
_format_message(message, prefix, num_plurals) ==
    IF message.is_plural
    THEN context_items(message, prefix)
           \o <<keyword_item(prefix, KW_msgid, message.id[1]),
                keyword_item(prefix, KW_msgid_plural, message.id[2])>>
           \o plural_items(message, prefix, num_plurals)
    ELSE context_items(message, prefix)
           \o <<keyword_item(prefix, KW_msgid, message.id[1]),
                keyword_item(prefix, KW_msgstr, message.string[1])>>

\* not message.id: the header
is_header(message) == ~message.is_plural /\ message.id[1] = <<>>

\* the lines of the header comment, each wrapped by header_wrapper
header_comment_lines(lines, width) ==
    Concat([i \in 1..Len(lines) |-> TextWrapper_wrap(lines[i], width, <<"#", "SP">>)])

\* the header comment, wrapped when width is positive
header_comment_text(header_comment, width) ==
    IF width > 0
    THEN JoinLF(header_comment_lines(splitlines(header_comment), width))
    ELSE header_comment

\* the fragment of the header comment, for the header only
header_items(message, header_comment, width) ==
    IF is_header(message)
    THEN <<raw_item(header_comment_text(header_comment, width) \o <<"LF">>)>>
    ELSE <<>>

\* isinstance(x[1], int) and x[1] or -1
lineno_key(lineno) ==
    IF lineno = {} \/ lineno = {0} THEN -1 ELSE CHOOSE n \in lineno : TRUE

\* a < b for the sort keys of two locations
location_key_lt(a, b) ==
    str_lt(a[1], b[1]) \/ (a[1] = b[1] /\ lineno_key(a[2]) < lineno_key(b[2]))

\* the sorted list with location e put before the first greater one
RECURSIVE insert_location(_, _)
insert_location(sortedlist, e) ==
    IF sortedlist = <<>> THEN <<e>>
    ELSE IF location_key_lt(e, Head(sortedlist)) THEN <<e>> \o sortedlist
    ELSE <<Head(sortedlist)>> \o insert_location(Tail(sortedlist), e)

\* sorted(message.locations, key=...)
RECURSIVE sorted_locations(_)
sorted_locations(locations) ==
    IF locations = <<>> THEN <<>>
    ELSE insert_location(sorted_locations(SubSeq(locations, 1, Len(locations) - 1)),
                         locations[Len(locations)])

\* the text written for one location
location_text(entry, include_lineno) ==
    IF include_lineno THEN format_location(entry[1], entry[2])
    ELSE _enclose_filename_if_necessary(entry[1])

\* locs with location appended unless it is in locs
append_new(locs, location) ==
    IF \E i \in 1..Len(locs) : locs[i] = location THEN locs
    ELSE Append(locs, location)

\* locs: the texts of the locations, each once, in order
RECURSIVE append_locs(_, _, _)
append_locs(locs, locations, include_lineno) ==
    IF locations = <<>> THEN locs
    ELSE append_locs(append_new(locs, location_text(Head(locations), include_lineno)),
                     Tail(locations), include_lineno)

\* ' '.join(parts)
RECURSIVE JoinSP(_)
JoinSP(parts) ==
    IF parts = <<>> THEN <<>>
    ELSE IF Len(parts) = 1 THEN parts[1]
    ELSE parts[1] \o <<"SP">> \o JoinSP(Tail(parts))

\* the "#:" comment of a message
location_items(message, no_location, include_lineno) ==
    IF no_location THEN <<>>
    ELSE <<comment_item(<<":">>,
                        JoinSP(append_locs(<<>>, sorted_locations(message.locations),
                                           include_lineno)))>>

\* sorted(message.flags)
RECURSIVE sorted_flags(_)
sorted_flags(flags) ==
    IF flags = {} THEN <<>>
    ELSE LET least == CHOOSE f \in flags : \A g \in flags : ~str_lt(g, f)
         IN  <<least>> \o sorted_flags(flags \ {least})

\* ', '.join(['', *flags])
join_flags(flags) ==
    Concat([i \in 1..Len(flags) |-> <<",", "SP">> \o flags[i]])

\* the "#," comment of a message that has flags
flag_items(message) ==
    IF message.flags = {} THEN <<>>
    ELSE <<raw_item(<<"#">> \o join_flags(sorted_flags(message.flags)) \o <<"LF">>)>>

\* the "#|" comments of a message that has a previous id
previous_items(message, include_previous) ==
    IF message.previous_id = <<>> \/ ~include_previous THEN <<>>
    ELSE <<previous_item(KW_msgid, message.previous_id[1])>>
           \o (IF Len(message.previous_id) > 1
               THEN <<previous_item(KW_msgid_plural, message.previous_id[2])>>
               ELSE <<>>)

\* a plausible slip: omit_header leaves out the header comment only
live_items_header_body_kept(message, catalog, options) ==
    (IF options.omit_header THEN <<>>
     ELSE header_items(message, catalog.header_comment, options.width))
      \o comment_items(message.user_comments, <<>>)
      \o comment_items(message.auto_comments, <<".">>)
      \o location_items(message, options.no_location, options.include_lineno)
      \o flag_items(message)
      \o previous_items(message, options.include_previous)
      \o _format_message(message, <<>>, catalog.num_plurals)
      \o <<raw_item(<<"LF">>)>>

\* one round of the loop over the messages of the catalog: what it yields
live_items(message, catalog, options) ==
    IF is_header(message) /\ options.omit_header THEN <<>>
    ELSE header_items(message, catalog.header_comment, options.width)
           \o comment_items(message.user_comments, <<>>)
           \o comment_items(message.auto_comments, <<".">>)
           \o location_items(message, options.no_location, options.include_lineno)
           \o flag_items(message)
           \o previous_items(message, options.include_previous)
           \o _format_message(message, <<>>, catalog.num_plurals)
           \o <<raw_item(<<"LF">>)>>

\* the prefix of the lines of an obsolete message
ObsoletePrefix == <<"#", "~", "SP">>

\* a plausible slip: an obsolete message is written like a live one, with
\* the prefix on its body
obsolete_items_decorated(message, catalog, options) ==
    comment_items(message.user_comments, <<>>)
      \o location_items(message, options.no_location, options.include_lineno)
      \o flag_items(message)
      \o _format_message(message, ObsoletePrefix, catalog.num_plurals)
      \o <<raw_item(<<"LF">>)>>

\* one round of the loop over the obsolete messages: what it yields
obsolete_items(message, catalog, options) ==
    comment_items(message.user_comments, <<>>)
      \o _format_message(message, ObsoletePrefix, catalog.num_plurals)
      \o <<raw_item(<<"LF">>)>>

\* a < b for two locations as Python compares tuples; the line numbers
\* compared are ints
location_lt(a, b) ==
    \/ str_lt(a[1], b[1])
    \/ a[1] = b[1] /\ a[2] # {} /\ b[2] # {}
         /\ (CHOOSE n \in a[2] : TRUE) < (CHOOSE n \in b[2] : TRUE)

\* a < b for two lists of locations
RECURSIVE locations_lt(_, _)
locations_lt(a, b) ==
    IF b = <<>> THEN FALSE
    ELSE IF a = <<>> THEN TRUE
    ELSE IF Head(a) = Head(b) THEN locations_lt(Tail(a), Tail(b))
    ELSE location_lt(Head(a), Head(b))

\* the sorted list with message e put before the first one whose locations
\* are greater
RECURSIVE insert_message(_, _)
insert_message(sortedlist, e) ==
    IF sortedlist = <<>> THEN <<e>>
    ELSE IF locations_lt(e.locations, Head(sortedlist).locations)
    THEN <<e>> \o sortedlist
    ELSE <<Head(sortedlist)>> \o insert_message(Tail(sortedlist), e)

\* messages.sort(key=lambda m: m.locations)
RECURSIVE sort_by_locations(_)
sort_by_locations(messages) ==
    IF messages = <<>> THEN <<>>
    ELSE insert_message(sort_by_locations(SubSeq(messages, 1, Len(messages) - 1)),
                        messages[Len(messages)])

\* _sort_messages(messages, sort_by), sort_by None or "location"
_sort_messages(messages, sort_by) ==
    IF sort_by = "location" THEN sort_by_locations(messages) ELSE messages

\* the items of every round of generate_po, in order
generate_items(catalog, options, live, obsolete) ==
    Concat([i \in 1..Len(live) |-> live_items(live[i], catalog, options)])
      \o Concat([i \in 1..Len(obsolete) |-> obsolete_items(obsolete[i], catalog, options)])

\* the whole stream of generate_po
generate_po(catalog, options) ==
    fragments_of(generate_items(catalog, options,
                                _sort_messages(catalog.live, options.sort_by),
                                IF options.ignore_obsolete THEN <<>>
                                ELSE _sort_messages(catalog.obsolete, options.sort_by)),
                 options.width)

(***************************************************************************)
(* The state.                                                              *)
(*   pc         where the run stands                                       *)
(*   self, catalog, stdout, raised                                         *)
(*              the machine of a parse (see PoFileParser above)            *)
(*   input      the lines parse has consumed so far                        *)
(*   string, width, text, restored                                         *)
(*              a value, the wrap width, its escaped or normalized text    *)
(*              and the value read back from the text                      *)
(*   filename, lineno, location, decoded                                   *)
(*              a location, the token written for it and the outcome of    *)
(*              reading the written location comment back                  *)
(*   source, options, pending, fragments                                   *)
(*              the catalog handed to generate_po, its keyword arguments,  *)
(*              the messages generate_po has still to go through and the   *)
(*              fragments it has yielded so far                            *)
(***************************************************************************)
VARIABLES pc, self, catalog, stdout, raised, input,
          string, width, text, restored,
          filename, lineno, location, decoded,
          source, options, pending, fragments

vars == <<pc, self, catalog, stdout, raised, input,
          string, width, text, restored,
          filename, lineno, location, decoded,
          source, options, pending, fragments>>

generator_vars == <<source, options, pending, fragments>>

parser_vars == <<self, catalog, stdout, raised, input>>

codec_vars == <<string, width, text, restored>>

location_vars == <<filename, lineno, location, decoded>>

\* the strings over chars of length at most n
Strings(chars, n) == UNION {[1..k -> chars] : k \in 0..n}

NoParser ==
    /\ self = PoFileParser(FALSE, FALSE)
    /\ catalog = Catalog
    /\ stdout = <<>>
    /\ raised = NoExc
    /\ input = <<>>

NoCodec ==
    /\ string = <<>>
    /\ width = 0
    /\ text = <<>>
    /\ restored = <<>>

NoLocation ==
    /\ filename = <<>>
    /\ lineno = {}
    /\ location = <<>>
    /\ decoded = [ok |-> TRUE, locations |-> <<>>]

\* the keyword arguments of generate_po at their defaults
DefaultOptions ==
    [ignore_obsolete |-> FALSE, include_lineno |-> TRUE,
     include_previous |-> FALSE, no_location |-> FALSE, omit_header |-> FALSE,
     sort_by |-> "none", width |-> 76]

NoGenerator ==
    /\ source = [num_plurals |-> NumPlurals, live |-> <<>>, obsolete |-> <<>>,
                 header_comment |-> <<>>]
    /\ options = DefaultOptions
    /\ pending = [live |-> <<>>, obsolete |-> <<>>]
    /\ fragments = <<>>

(***************************************************************************)
(* The lines of the input files.                                           *)
(***************************************************************************)
\* a double-quoted value without characters to escape
Quoted(s) == <<"DQ">> \o s \o <<"DQ">>

Obsolete(line) == <<"#", "~", "SP">> \o line

L_blank == <<>>

L_msgid_a == KW_msgid \o <<"SP">> \o Quoted(<<"a">>)

L_msgid_plural_b == KW_msgid_plural \o <<"SP">> \o Quoted(<<"b">>)

L_msgctxt_c == KW_msgctxt \o <<"SP">> \o Quoted(<<"c">>)

L_msgstr_x == KW_msgstr \o <<"SP">> \o Quoted(<<"x">>)

L_msgstr_0 == KW_msgstr \o <<"[", "0", "]", "SP">> \o Quoted(<<"y">>)

L_msgstr_1 == KW_msgstr \o <<"[", "1", "]", "SP">> \o Quoted(<<"z">>)

L_msgstr_2 == KW_msgstr \o <<"[", "2", "]", "SP">> \o Quoted(<<"w">>)

L_msgstr_minus1 == KW_msgstr \o <<"[", "-", "1", "]", "SP">> \o Quoted(<<"n">>)

L_msgstr_badidx == KW_msgstr \o <<"[", "x", "]", "SP">> \o Quoted(<<"v">>)

L_continuation == Quoted(<<"k">>)

L_unknown == <<"f", "o", "o", "SP">> \o Quoted(<<"a">>)

L_obsolete_msgid == Obsolete(KW_msgid \o <<"SP">> \o Quoted(<<"o">>))

L_obsolete_msgstr == Obsolete(KW_msgstr \o <<"SP">> \o Quoted(<<"p">>))

L_user_comment == <<"#", "SP", "u">>

L_auto_comment == <<"#", ".", "SP", "d">>

L_flags == <<"#", ",", "SP", "f", "u", "z", "z", "y">>

L_location == <<"#", ":", "SP", "f", ":", "1">>

L_location_noint == <<"#", ":", "SP", "f", ":", "x", "SP", "g", ":", "2">>

L_location_isolated == <<"#", ":", "SP", "FSI", "a", "SP", "b", "PDI", ":", "2">>

L_location_unbalanced == <<"#", ":", "SP", "FSI", "a", "SP", "b">>

\* the lines of the general parser runs
Lines ==
    {L_blank, L_msgid_a, L_msgctxt_c, L_msgstr_x, L_msgstr_badidx,
     L_continuation, L_unknown, L_obsolete_msgid, L_obsolete_msgstr,
     L_user_comment}

\* the lines of the runs over plural messages
PluralLines ==
    {L_msgid_a, L_msgid_plural_b, L_msgstr_0, L_msgstr_1, L_msgstr_2,
     L_msgstr_minus1, L_continuation}

\* the lines of the runs over comments
CommentLines ==
    {L_msgid_a, L_msgstr_x, L_user_comment, L_auto_comment, L_flags,
     L_location, L_location_noint, L_location_isolated, L_location_unbalanced}

(***************************************************************************)
(* parse: one action per kind of line the loop tells apart, and one for    *)
(* the end of the input.  L is the set of lines the file is made of and    *)
(* max its greatest number of lines.                                       *)
(***************************************************************************)
IsBlankLine(line) == Strip(line) = <<>>

IsCommentLine(line) == ~IsBlankLine(line) /\ Strip(line)[1] = "#"

IsObsoleteLine(line) ==
    IsCommentLine(line) /\ StartsWith(Strip(line), <<"#", "~">>)

IsContinuationLine(line) == ~IsBlankLine(line) /\ Strip(line)[1] = "DQ"

IsKeywordLine(line) ==
    ~IsBlankLine(line) /\ ~IsCommentLine(line) /\ ~IsContinuationLine(line)

Machine == [self |-> self, catalog |-> catalog, stdout |-> stdout, raised |-> raised]

\* the loop of parse takes the next line
Consume(line) ==
    \E m \in {parse_line(Machine, Len(input), line)} :
        /\ self' = m.self
        /\ catalog' = m.catalog
        /\ stdout' = m.stdout
        /\ raised' = m.raised
        /\ input' = Append(input, line)
        /\ pc' = IF m.raised # NoExc THEN "raised" ELSE "parsing"
        /\ UNCHANGED <<codec_vars, location_vars, generator_vars>>

SkipBlankLine(L, max) ==
    /\ pc = "parsing" /\ Len(input) < max
    /\ \E line \in L : IsBlankLine(line) /\ Consume(line)

ProcessComment(L, max) ==
    /\ pc = "parsing" /\ Len(input) < max
    /\ \E line \in L :
          IsCommentLine(line) /\ ~IsObsoleteLine(line) /\ Consume(line)

ProcessObsoleteLine(L, max) ==
    /\ pc = "parsing" /\ Len(input) < max
    /\ \E line \in L : IsObsoleteLine(line) /\ Consume(line)

ProcessKeywordLine(L, max) ==
    /\ pc = "parsing" /\ Len(input) < max
    /\ \E line \in L : IsKeywordLine(line) /\ Consume(line)

ProcessStringContinuationLine(L, max) ==
    /\ pc = "parsing" /\ Len(input) < max
    /\ \E line \in L : IsContinuationLine(line) /\ Consume(line)

EndOfInput ==
    /\ pc = "parsing"
    /\ \E m \in {parse_end(Machine)} :
           /\ self' = m.self
           /\ catalog' = m.catalog
           /\ stdout' = m.stdout
           /\ raised' = m.raised
           /\ pc' = IF m.raised # NoExc THEN "raised" ELSE "done"
    /\ UNCHANGED <<input, codec_vars, location_vars, generator_vars>>

\* parse starts on an empty catalog, with any setting of the two options
InitParser ==
    /\ pc = "parsing"
    /\ \E ignore_obsolete \in BOOLEAN, abort_invalid \in BOOLEAN :
          self = PoFileParser(ignore_obsolete, abort_invalid)
    /\ catalog = Catalog
    /\ stdout = <<>>
    /\ raised = NoExc
    /\ input = <<>>
    /\ NoCodec
    /\ NoLocation
    /\ NoGenerator

Init == InitParser

Next ==
    \/ SkipBlankLine(Lines, MaxLines)
    \/ ProcessComment(Lines, MaxLines)
    \/ ProcessObsoleteLine(Lines, MaxLines)
    \/ ProcessKeywordLine(Lines, MaxLines)
    \/ ProcessStringContinuationLine(Lines, MaxLines)
    \/ EndOfInput

Spec == Init /\ [][Next]_vars

NextPlural ==
    \/ ProcessKeywordLine(PluralLines, MaxPluralLines)
    \/ ProcessStringContinuationLine(PluralLines, MaxPluralLines)
    \/ EndOfInput

SpecPlural == Init /\ [][NextPlural]_vars

NextComment ==
    \/ ProcessComment(CommentLines, MaxLines)
    \/ ProcessKeywordLine(CommentLines, MaxLines)
    \/ EndOfInput

SpecComment == Init /\ [][NextComment]_vars

(***************************************************************************)
(* normalize followed by denormalize, on every short string over a few     *)
(* characters of each kind and every small positive width.                 *)
(***************************************************************************)
NormalizeChars == {"a", "SP", "LF", "-", "DQ"}

InitNormalize ==
    /\ pc = "normalize"
    /\ string \in Strings(NormalizeChars, MaxStrLen)
    /\ width \in 1..MaxWidth
    /\ text = <<>>
    /\ restored = <<>>
    /\ NoParser
    /\ NoLocation
    /\ NoGenerator

Normalize ==
    /\ pc = "normalize"
    /\ text' = normalize(string, <<>>, width)
    /\ pc' = "denormalize"
    /\ UNCHANGED <<string, width, restored, parser_vars, location_vars, generator_vars>>

Denormalize ==
    /\ pc = "denormalize"
    /\ restored' = denormalize(text)
    /\ pc' = "restored"
    /\ UNCHANGED <<string, width, text, parser_vars, location_vars, generator_vars>>

NextNormalize == Normalize \/ Denormalize

SpecNormalize == InitNormalize /\ [][NextNormalize]_vars

(***************************************************************************)
(* escape followed by unescape, on every short string over the characters  *)
(* escape replaces and the letters their escapes are written with.         *)
(***************************************************************************)
EscapeChars == {"a", "n", "t", "r", "BSL", "DQ", "TAB", "CR", "LF"}

InitEscape ==
    /\ pc = "escape"
    /\ string \in Strings(EscapeChars, MaxEscLen)
    /\ width = 0
    /\ text = <<>>
    /\ restored = <<>>
    /\ NoParser
    /\ NoLocation
    /\ NoGenerator

Escape ==
    /\ pc = "escape"
    /\ text' = escape(string)
    /\ pc' = "unescape"
    /\ UNCHANGED <<string, width, restored, parser_vars, location_vars, generator_vars>>

Unescape ==
    /\ pc = "unescape"
    /\ restored' = unescape(text)
    /\ pc' = "restored"
    /\ UNCHANGED <<string, width, text, parser_vars, location_vars, generator_vars>>

NextEscape == Escape \/ Unescape

SpecEscape == InitEscape /\ [][NextEscape]_vars

(***************************************************************************)
(* A location written by generate_po and read back by _process_comment.    *)
(***************************************************************************)
FilenameChars == {"a", "SP", ":", "1", "FSI", "PDI"}

InitLocation ==
    /\ pc = "write"
    /\ filename \in Strings(FilenameChars, MaxNameLen) \ {<<>>}
    /\ lineno \in {{}} \cup {{n} : n \in 0..MaxLineno}
    /\ location = <<>>
    /\ decoded = [ok |-> TRUE, locations |-> <<>>]
    /\ NoParser
    /\ NoCodec
    /\ NoGenerator

\* generate_po writes the location of the message
WriteLocation ==
    /\ pc = "write"
    /\ location' = format_location(filename, lineno)
    /\ pc' = "read"
    /\ UNCHANGED <<filename, lineno, decoded, parser_vars, codec_vars, generator_vars>>

\* _process_comment reads the "#:" line back: ok = FALSE where
\* _extract_locations raises, else the pairs appended to self.locations
ReadLocation ==
    /\ pc = "read"
    /\ LET extracted == _extract_locations(<<"SP">> \o location)
       IN  decoded' = IF extracted.ok
                      THEN [ok |-> TRUE,
                            locations |-> location_entries(extracted.locations)]
                      ELSE extracted
    /\ pc' = "decoded"
    /\ UNCHANGED <<filename, lineno, location, parser_vars, codec_vars, generator_vars>>

NextLocation == WriteLocation \/ ReadLocation

SpecLocation == InitLocation /\ [][NextLocation]_vars

(***************************************************************************)
(* The steps of parse the properties speak of.                             *)
(***************************************************************************)
\* what _process_message_line is handed for a line: the line stripped and
\* without its "#~" tag
MessagePart(line) ==
    IF IsObsoleteLine(line) THEN LStrip(From(Strip(line), 3)) ELSE Strip(line)

\* the keyword _process_keyword_line reads off a line
Keyword(line) == partition(MessagePart(line), "SP")[1]

\* the lines on which parse calls _finish_current_message: a comment other
\* than "#~", and a msgid or msgctxt keyword line
TriggersFinish(line) ==
    \/ IsCommentLine(line) /\ ~IsObsoleteLine(line)
    \/ Keyword(line) \in {KW_msgid, KW_msgctxt}

\* the line a step of the loop consumes
LineRead == input'[Len(input')]

\* a step of the loop of parse
LineStep == pc = "parsing" /\ Len(input') = Len(input) + 1

\* the step after the last line
EndStep == pc = "parsing" /\ input' = input /\ pc' # "parsing"

\* a step in which parse calls _finish_current_message
FinishStep == (LineStep /\ TriggersFinish(LineRead)) \/ EndStep

\* the messages a step stored in the catalog, live or obsolete
AddedLive == SubSeq(catalog'.live, Len(catalog.live) + 1, Len(catalog'.live))

AddedObsolete ==
    SubSeq(catalog'.obsolete, Len(catalog.obsolete) + 1, Len(catalog'.obsolete))

\* a warning with the text msg is among the warnings ws
Warned(ws, msg) == \E i \in 1..Len(ws) : ws[i].msg = msg

(***************************************************************************)
(* C1.  For every string s and every positive width w,                     *)
(* denormalize(normalize(s, width=w)) equals s.                            *)
(***************************************************************************)
\* C1: once a string was normalized at some width and denormalized again,
\* the value read back is the string
C1_RoundTrip == (pc = "restored" /\ width > 0) => restored = string

C3_NeverRaises == ~self.abort_invalid => (raised = NoExc /\ pc # "raised")

(***************************************************************************)
(* C4.  Where a message goes: the live catalog or catalog.obsolete.        *)
(***************************************************************************)
\* the lines parse hands to _process_keyword_line, with or without "#~"
IsRoutedKeywordLine(line) ==
    LET part == MessagePart(line)
    IN  /\ part # <<>>
        /\ part[1] # "DQ"
        /\ part[1] = "#" => IsObsoleteLine(line)

\* the last line of fileobj handed to _process_keyword_line carried "#~"
RECURSIVE LastKeywordTagged(_)
LastKeywordTagged(fileobj) ==
    /\ fileobj # <<>>
    /\ IF IsRoutedKeywordLine(fileobj[Len(fileobj)])
       THEN IsObsoleteLine(fileobj[Len(fileobj)])
       ELSE LastKeywordTagged(SubSeq(fileobj, 1, Len(fileobj) - 1))

\* C4: the "#~" tag of the last keyword line read before a message is
\* finalized decides where it is stored, which covers the message all of
\* whose keyword lines carry "#~" and the message none of whose keyword
\* lines does: a tagged message is never stored in the live catalog, it is
\* stored in catalog.obsolete when ignore_obsolete is off and nowhere when
\* it is on; an untagged message is stored in the live catalog and never in
\* catalog.obsolete
C4_ObsoleteRouting ==
    [][/\ AddedLive # <<>> => ~LastKeywordTagged(input)
       /\ AddedObsolete # <<>> =>
              LastKeywordTagged(input) /\ ~self.ignore_obsolete
       /\ (self.messages # <<>> /\ pc' # "raised" /\ FinishStep) =>
              IF LastKeywordTagged(input)
              THEN /\ AddedLive = <<>>
                   /\ IF self.ignore_obsolete THEN AddedObsolete = <<>>
                      ELSE /\ Len(AddedObsolete) = 1
                           /\ AddedObsolete[1].id[1] =
                                  ns_denormalize(self.messages[1])
              ELSE /\ AddedObsolete = <<>>
                   /\ Len(AddedLive) = 1
                   /\ AddedLive[1].id[1] = ns_denormalize(self.messages[1])
    ]_vars

\* C4 happens: of one file the message read from "#~" lines is in
\* catalog.obsolete and the message read from plain lines in the live
\* catalog
C4_Witness ==
    /\ pc = "done"
    /\ \E i \in 1..Len(catalog.obsolete) : catalog.obsolete[i].id = <<<<"o">>>>
    /\ \E i \in 1..Len(catalog.live) : catalog.live[i].id = <<<<"a">>>>

(***************************************************************************)
(* C5.  The translation of a plural message.                               *)
(***************************************************************************)
\* the collected translations with plural index idx
Collected(idx) ==
    {k \in 1..Len(self.translations) : self.translations[k][1] = idx}

\* the collected translations with a plural index num_plurals or more
Excess ==
    {k \in 1..Len(self.translations) :
        self.translations[k][1] >= catalog.num_plurals}

\* the warnings a step printed
AddedWarnings == SubSeq(stdout', Len(stdout) + 1, Len(stdout'))

\* C5: a step that finalizes a message with more than one id fragment
\* raises only for a problem it reports under abort_invalid, and otherwise
\* stores one message whose translation is a tuple of num_plurals strings:
\* slot i holds the denormalized value collected for msgstr[i], a slot no
\* collected index names is empty, and each collected index of num_plurals
\* or more is reported and fills no slot
C5_PluralTranslation ==
    [][(FinishStep /\ Len(self.messages) > 1) =>
         /\ pc' = "raised" =>
                /\ self.abort_invalid
                /\ raised'.type = "PoFileError"
                /\ Excess # {} \/ self.translations = <<>>
         /\ pc' # "raised" =>
                /\ Len(AddedLive) = 1
                /\ Len(AddedLive[1].string) = catalog.num_plurals
                /\ \A i \in 0..(catalog.num_plurals - 1) :
                      IF Collected(i) # {}
                      THEN \E k \in Collected(i) :
                              AddedLive[1].string[i + 1] =
                                  ns_denormalize(self.translations[k][2])
                      ELSE AddedLive[1].string[i + 1] = <<>>
                /\ Cardinality({j \in 1..Len(AddedWarnings) :
                                   AddedWarnings[j].msg = TooManyTranslations})
                       = Cardinality(Excess)
    ]_vars

(***************************************************************************)
(* C6.  A location comment with unbalanced isolate markers.                *)
(***************************************************************************)
\* a "#:" comment line
IsLocationLine(line) == StartsWith(Strip(line), <<"#", ":">>)

\* what _process_comment hands to _extract_locations for a "#:" line
LocationPayload(line) == From(Strip(line), 3)

\* a "#:" line on which _extract_locations raises
IsUnbalancedLine(line) ==
    IsLocationLine(line) /\ ~_extract_locations(LocationPayload(line)).ok

HasMetadata ==
    self.flags # <<>> \/ self.user_comments # <<>> \/ self.auto_comments # <<>>

\* the messages with the empty id among ms
EmptyIds(ms) == {i \in 1..Len(ms) : ms[i].id = <<<<>>>>}

\* C7: at the end of the input, if no message was emitted during the whole
\* parse and a flag, user comment or auto comment was accumulated, one
\* message with the empty id and the empty translation, carrying that
\* metadata, is added to the catalog; if a message was emitted, none is
C7_HeaderSynthesis ==
    [][(EndStep /\ pc' = "done") =>
         IF self.counter = 0 /\ self.messages = <<>>
         THEN IF HasMetadata
              THEN /\ Len(AddedLive \o AddedObsolete) = 1
                   /\ LET header == (AddedLive \o AddedObsolete)[1]
                      IN  /\ header.id = <<<<>>>>
                          /\ header.string = <<<<>>>>
                          /\ header.flags = self.flags
                          /\ header.user_comments = self.user_comments
                          /\ header.auto_comments = self.auto_comments
              ELSE AddedLive \o AddedObsolete = <<>>
         ELSE EmptyIds(AddedLive \o AddedObsolete) = {}
    ]_vars

(***************************************************************************)
(* C8.  A location token whose line number does not parse.                 *)
(***************************************************************************)
\* the location tokens of a "#:" line
Tokens(line) == _extract_locations(LocationPayload(line)).locations

\* a token with a colon whose text after the rightmost colon int() rejects
IsNonIntToken(token) ==
    Contains(token, ":") /\ ~int(rpartition_colon(token)[3])[1]

\* the locations a step appended to self.locations
AddedLocations ==
    LET base == IF self.messages # <<>> THEN <<>> ELSE self.locations
    IN  SubSeq(self'.locations, Len(base) + 1, Len(self'.locations))

\* a step that reads a well-formed "#:" line with a token whose line number
\* does not parse
NonIntStep ==
    /\ LineStep /\ pc' # "raised"
    /\ IsLocationLine(LineRead) /\ ~IsUnbalancedLine(LineRead)
    /\ \E k \in 1..Len(Tokens(LineRead)) : IsNonIntToken(Tokens(LineRead)[k])

\* C8 as claimed: a token with a colon whose text after the rightmost colon
\* is not an integer is recorded as a location with the whole token as
\* filename and no line number, and is not reported
C8_FilenameOnly ==
    [][NonIntStep =>
         /\ \A k \in 1..Len(Tokens(LineRead)) :
               IsNonIntToken(Tokens(LineRead)[k]) =>
                   \E j \in 1..Len(AddedLocations) :
                       AddedLocations[j] = <<Tokens(LineRead)[k], {}>>
         /\ \A j \in 1..Len(AddedWarnings) :
               AddedWarnings[j].msg = MissingMsgstr
    ]_vars

\* C8 as the code has it: a token with a colon whose text after the
\* rightmost colon is not an integer is dropped: no location is recorded
\* for it, the other tokens of the line are recorded, and nothing is
\* reported or raised for it
C8_Dropped ==
    [][NonIntStep =>
         /\ Len(AddedLocations) =
                Cardinality({k \in 1..Len(Tokens(LineRead)) :
                                ~IsNonIntToken(Tokens(LineRead)[k])})
         /\ \A k \in 1..Len(Tokens(LineRead)) :
               IsNonIntToken(Tokens(LineRead)[k]) =>
                   \A j \in 1..Len(AddedLocations) :
                       /\ AddedLocations[j] # <<Tokens(LineRead)[k], {}>>
                       /\ AddedLocations[j][1] # Tokens(LineRead)[k]
         /\ \A j \in 1..Len(AddedWarnings) :
               AddedWarnings[j].msg = MissingMsgstr
         /\ raised' = NoExc
    ]_vars

\* C8 happens: parse has read "#: f:x g:2" and recorded g:2 alone
C8_Witness ==
    /\ input # <<>> /\ input[Len(input)] = L_location_noint
    /\ self.locations = << <<<<"g">>, {2}>> >>
    /\ raised = NoExc

(***************************************************************************)
(* C9.  For every string s, unescape(escape(s)) equals s.                  *)
(***************************************************************************)
\* C9: once a string was escaped and the text unescaped again, the value
\* read back is the string, whatever backslashes, tabs, carriage returns,
\* newlines and double quotes it holds
C9_RoundTrip == pc = "restored" => restored = string

\* C9 happens: a string with a backslash before the letter n, a newline and
\* a double quote went through escape and unescape
C9_Witness ==
    /\ pc = "restored"
    /\ string = <<"BSL", "n", "LF", "DQ">>
    /\ text = <<"DQ", "BSL", "BSL", "n", "BSL", "n", "BSL", "DQ", "DQ">>
    /\ restored = string

(***************************************************************************)
(* C10.  A location whose filename holds a space, written and read back.   *)
(***************************************************************************)
\* the location read back is the one written
ReadBack ==
    decoded = [ok |-> TRUE, locations |-> << <<filename, lineno>> >>]

\* C10 as claimed: every filename with a space, with or without a line
\* number, is read back as one location with the same filename and the
\* same line number
C10_RoundTrip ==
    (pc = "decoded" /\ Contains(filename, "SP")) => ReadBack

\* C10 as the code has it: a filename with a space and without an isolate
\* marker (U+2068, U+2069) of its own is read back as one location with the
\* same filename and the same line number when it goes with a positive
\* line number, or with none and holds no colon
C10_RoundTripPlain ==
    (/\ pc = "decoded"
     /\ Contains(filename, "SP")
     /\ ~Contains(filename, "FSI") /\ ~Contains(filename, "PDI")
     /\ \/ \E n \in lineno : n > 0
        \/ lineno = {} /\ ~Contains(filename, ":")) => ReadBack

\* C10 happens: a filename with a space and a colon was written with its
\* line number inside isolate markers and read back
C10_Witness ==
    /\ pc = "decoded"
    /\ filename = <<"a", ":", "SP", "1">>
    /\ lineno = {MaxLineno - 1}
    /\ location = <<"FSI", "a", ":", "SP", "1", "PDI", ":">>
                      \o format_d(MaxLineno - 1)
    /\ ReadBack

(***************************************************************************)
(* C11.  _extract_locations on every short payload over a filename         *)
(* character, the space and the two isolate markers.                       *)
(***************************************************************************)
PayloadChars == {"a", "SP", "FSI", "PDI"}

InitExtract ==
    /\ pc = "extract"
    /\ location \in Strings(PayloadChars, MaxPayloadLen)
    /\ filename = <<>>
    /\ lineno = {}
    /\ decoded = [ok |-> TRUE, locations |-> <<>>]
    /\ NoParser
    /\ NoCodec
    /\ NoGenerator

\* _extract_locations is called on the payload
ExtractLocations ==
    /\ pc = "extract"
    /\ decoded' = _extract_locations(location)
    /\ pc' = "extracted"
    /\ UNCHANGED <<filename, lineno, location, parser_vars, codec_vars, generator_vars>>

NextExtract == ExtractLocations

SpecExtract == InitExtract /\ [][NextExtract]_vars

\* where the isolate markers of s leave a reader: "closed" outside a
\* filename, "open" inside one, "bad" after a second open or a close
\* without open
RECURSIVE IsolateState(_)
IsolateState(s) ==
    IF s = <<>> THEN "closed"
    ELSE LET before == IsolateState(SubSeq(s, 1, Len(s) - 1))
             c == s[Len(s)]
         IN  IF before = "bad" THEN "bad"
             ELSE IF c = "FSI" THEN (IF before = "open" THEN "bad" ELSE "open")
             ELSE IF c = "PDI" THEN (IF before = "closed" THEN "bad" ELSE "closed")
             ELSE before

\* C11: _extract_locations raises for every payload whose isolate markers
\* are unbalanced: an open marker without its close at the end of the line
\* (also when no filename character follows it), a second open while one is
\* open, a close without open
C11_UnbalancedRaises ==
    (pc = "extracted" /\ IsolateState(location) # "closed") => ~decoded.ok

(***************************************************************************)
(* C12.  unescape on every short quoted text, escapes of other characters  *)
(* than \ t r n " among them.                                              *)
(***************************************************************************)
UnescapeChars == {"a", "n", "t", "BSL", "DQ"}

InitUnescape ==
    /\ pc = "unescape"
    /\ text \in {Quoted(s) : s \in Strings(UnescapeChars, MaxEscLen)}
    /\ string = <<>>
    /\ width = 0
    /\ restored = <<>>
    /\ NoParser
    /\ NoLocation
    /\ NoGenerator

NextUnescape == Unescape

SpecUnescape == InitUnescape /\ [][NextUnescape]_vars

\* the characters unescape knows after a backslash
Escapable == {"BSL", "t", "r", "n", "DQ"}

\* the backslash at i of s is not itself escaped: an even number of
\* backslashes stands right before it
RECURSIVE StartsEscape(_, _)
StartsEscape(s, i) ==
    /\ i \in 1..Len(s) /\ s[i] = "BSL"
    /\ i > 1 => ~StartsEscape(s, i - 1)

\* the positions of s with a backslash, not itself escaped, before a
\* character other than \ t r n "
OtherEscapes(s) ==
    {i \in 1..(Len(s) - 1) : StartsEscape(s, i) /\ s[i + 1] \notin Escapable}

\* what unescape gives for the text around position i when the two
\* characters at i and i + 1 come out as middle
Around(s, i, middle) ==
    unescape(Quoted(SubSeq(s, 1, i - 1))) \o middle
        \o unescape(Quoted(From(s, i + 2)))

\* C12 as claimed: a backslash before a character other than \ t r n "
\* comes out as that character alone, the backslash is removed
C12_BackslashRemoved ==
    pc = "restored" =>
        \A i \in OtherEscapes(Inner(text)) :
            restored = Around(Inner(text), i, <<Inner(text)[i + 1]>>)

\* C12 as the code has it: a backslash before a character other than
\* \ t r n " is no escape: the backslash and the character both come out
\* as they are
C12_BackslashKept ==
    pc = "restored" =>
        \A i \in OtherEscapes(Inner(text)) :
            restored = Around(Inner(text), i, <<"BSL", Inner(text)[i + 1]>>)

\* C12 happens: the text "\a\n" was unescaped, its \a kept and its \n
\* turned into a newline
C12_Witness ==
    /\ pc = "restored"
    /\ text = Quoted(<<"BSL", "a", "BSL", "n">>)
    /\ OtherEscapes(Inner(text)) = {1}
    /\ restored = <<"BSL", "a", "LF">>

(***************************************************************************)
(* generate_po as a machine: one step for each message of the catalog,     *)
(* live messages first, then the obsolete ones.                            *)
(***************************************************************************)
\* a message as the catalog holds it
CatalogMessage(is_plural, id, str, locs, flags, ucs, acs, previous_id, context) ==
    [id |-> id, string |-> str, is_plural |-> is_plural,
     locations |-> locs, flags |-> flags,
     auto_comments |-> acs, user_comments |-> ucs,
     previous_id |-> previous_id, context |-> context]

\* generate_po is called: the lists it will go through
StartGenerate ==
    /\ pc = "generate"
    /\ pending = [live |-> _sort_messages(source.live, options.sort_by),
                  obsolete |-> _sort_messages(source.obsolete, options.sort_by)]
    /\ fragments = <<>>

\* the fragments of the items are handed to the consumer
Yield(items) == fragments' = fragments \o fragments_of(items, options.width)

\* one round of the loop over the messages of the catalog
GenerateLive ==
    /\ pc = "generate"
    /\ pending.live # <<>>
    /\ Yield(live_items(Head(pending.live), source, options))
    /\ pending' = [pending EXCEPT !.live = Tail(@)]
    /\ UNCHANGED <<pc, source, options, parser_vars, codec_vars, location_vars>>

\* one round of the loop over the obsolete messages
GenerateObsolete ==
    /\ pc = "generate"
    /\ pending.live = <<>>
    /\ ~options.ignore_obsolete
    /\ pending.obsolete # <<>>
    /\ Yield(obsolete_items(Head(pending.obsolete), source, options))
    /\ pending' = [pending EXCEPT !.obsolete = Tail(@)]
    /\ UNCHANGED <<pc, source, options, parser_vars, codec_vars, location_vars>>

\* generate_po is exhausted
GenerateEnd ==
    /\ pc = "generate"
    /\ pending.live = <<>>
    /\ options.ignore_obsolete \/ pending.obsolete = <<>>
    /\ pc' = "generated"
    /\ UNCHANGED <<generator_vars, parser_vars, codec_vars, location_vars>>

\* the generated text is read by read_po with its defaults, line by line
ReadGenerated ==
    /\ pc = "generated"
    /\ input' = splitlines_keep(Concat(fragments))
    /\ \E m \in {parse_lines(NewMachine(FALSE, FALSE), 0, input')} :
        /\ self' = m.self
        /\ catalog' = m.catalog
        /\ stdout' = m.stdout
        /\ raised' = m.raised
        /\ pc' = IF m.raised # NoExc THEN "raised" ELSE "read"
    /\ UNCHANGED <<generator_vars, codec_vars, location_vars>>

(***************************************************************************)
(* C13.  A catalog of one singular message with one location and one flag  *)
(* is generated with the defaults and some width, and the text is read.    *)
(***************************************************************************)
\* the singular messages with one location and one flag
RoundTripMessages ==
    {CatalogMessage(FALSE, <<id>>, <<str>>, << <<<<"f">>, lineno_>> >>, {flag},
                    <<>>, <<>>, <<>>, <<>>) :
        id \in Strings({"a", "SP"}, MaxIdLen) \ {<<>>},
        str \in Strings({"x", "SP"}, MaxIdLen),
        lineno_ \in {{}, {1}, {12}},
        flag \in {<<"z">>, <<"f", "u", "z", "z", "y">>}}

InitRoundTrip ==
    /\ source \in {[num_plurals |-> NumPlurals, live |-> <<message>>,
                    obsolete |-> <<>>, header_comment |-> <<>>] :
                      message \in RoundTripMessages}
    /\ options \in {[DefaultOptions EXCEPT !.width = w] : w \in 0..MaxWidth}
    /\ StartGenerate
    /\ NoParser
    /\ NoCodec
    /\ NoLocation

NextRoundTrip == GenerateLive \/ GenerateEnd \/ ReadGenerated

SpecRoundTrip == InitRoundTrip /\ [][NextRoundTrip]_vars

\* the flags of a message the parser built, as a set
FlagSet(message) == {message.flags[i] : i \in 1..Len(message.flags)}

\* C13: a catalog with one singular message with one location and one flag,
\* generated at any width and read again, gives one message with the same
\* id, the same translation, the same locations and the same flags
C13_RoundTrip ==
    pc \in {"read", "raised"} =>
        /\ pc = "read"
        /\ Len(catalog.live) = 1
        /\ ~catalog.live[1].is_plural
        /\ catalog.live[1].id = source.live[1].id
        /\ catalog.live[1].string = source.live[1].string
        /\ catalog.live[1].locations = source.live[1].locations
        /\ FlagSet(catalog.live[1]) = source.live[1].flags

(***************************************************************************)
(* C14, C15.  generate_po on small catalogs, under every setting of its    *)
(* keyword arguments (sort_by None or "location", width 0 or 3).           *)
(***************************************************************************)
\* the header message: the empty id, with a flag and a user comment
HeaderMessage ==
    CatalogMessage(FALSE, << <<>> >>, << <<"v">> >>, <<>>, {<<"z">>},
                   << <<"u">> >>, <<>>, <<>>, <<>>)

\* a singular message with comments, locations, flags and a previous id
DecoratedMessage ==
    CatalogMessage(FALSE, << <<"b">> >>, << <<"x", "SP", "y">> >>,
                   << <<<<"g">>, {2}>>, <<<<"f", "SP", "a">>, {}>>, <<<<"g">>, {2}>> >>,
                   {<<"z">>, <<"a">>}, << <<"u", "SP", "v">> >>, << <<"w">> >>,
                   << <<"p">> >>, <<>>)

\* a plural message with a context, short of one translation
PluralMessage ==
    CatalogMessage(TRUE, <<<<"a">>, <<"c">>>>, << <<"x">> >>,
                   << <<<<"f">>, {1}>> >>, {<<"z">>}, <<>>, <<>>,
                   <<<<"p">>, <<"r">>>>, << <<"k">> >>)

MessagePool == {DecoratedMessage, PluralMessage}

\* the lists of at most n messages of the pool
MessageLists(n) == UNION {[1..k -> MessagePool] : k \in 0..n}

\* the settings of the keyword arguments
GenerateOptions ==
    {[ignore_obsolete |-> io, include_lineno |-> il, include_previous |-> ip,
      no_location |-> nl, omit_header |-> oh, sort_by |-> sb, width |-> w] :
        io \in BOOLEAN, il \in BOOLEAN, ip \in BOOLEAN, nl \in BOOLEAN,
        oh \in BOOLEAN, sb \in {"none", "location"}, w \in {0, 3}}

InitGenerate ==
    /\ source \in {[num_plurals |-> NumPlurals, live |-> header \o live,
                    obsolete |-> obsolete,
                    header_comment |-> <<"#", "SP", "t", "SP", "u">>] :
                      header \in {<<>>, <<HeaderMessage>>},
                      live \in MessageLists(MaxMessages),
                      obsolete \in MessageLists(MaxObsolete)}
    /\ options \in GenerateOptions
    /\ StartGenerate
    /\ NoParser
    /\ NoCodec
    /\ NoLocation

NextGenerate == GenerateLive \/ GenerateObsolete \/ GenerateEnd

SpecGenerate == InitGenerate /\ [][NextGenerate]_vars

\* the keyword arguments with omit_header off
HeaderKept == [options EXCEPT !.omit_header = FALSE]

\* for each fragment of the run with omit_header off, whether it is a
\* fragment of the header message
OfHeader ==
    LET live == _sort_messages(source.live, options.sort_by)
        obsolete == IF options.ignore_obsolete THEN <<>>
                    ELSE _sort_messages(source.obsolete, options.sort_by)
    IN  Concat([i \in 1..Len(live) |->
                   [k \in 1..Len(fragments_of(live_items(live[i], source, HeaderKept),
                                              options.width)) |->
                       is_header(live[i])]])
          \o Concat([i \in 1..Len(obsolete) |->
                   [k \in 1..Len(fragments_of(obsolete_items(obsolete[i], source,
                                                             HeaderKept),
                                              options.width)) |->
                       FALSE]])

\* the elements of seq whose mark in drop is FALSE
RECURSIVE Keep(_, _)
Keep(seq, drop) ==
    IF seq = <<>> THEN <<>>
    ELSE (IF drop[1] THEN <<>> ELSE <<seq[1]>>) \o Keep(Tail(seq), Tail(drop))

\* C14: the stream generated with omit_header on is the stream generated
\* with omit_header off, all else equal, with the fragments of the header
\* message removed and nothing else changed
C14_OmitHeader ==
    (pc = "generated" /\ options.omit_header) =>
        fragments = Keep(generate_po(source, HeaderKept), OfHeader)

\* C14 happens: a catalog with a header and another message was generated
\* with omit_header on, and the stream is shorter than with omit_header off
C14_Witness ==
    /\ pc = "generated"
    /\ options.omit_header
    /\ Len(source.live) >= 2
    /\ is_header(source.live[1])
    /\ fragments # <<>>
    /\ Len(fragments) < Len(generate_po(source, HeaderKept))

\* the fragments a step yields
Yielded == SubSeq(fragments', Len(fragments) + 1, Len(fragments'))

\* a step that goes through a live message, an obsolete message
LiveStep == pending'.live # pending.live

ObsoleteStep == pending'.obsolete # pending.obsolete

\* every line of the fragment starts with the prefix of obsolete messages
IsObsoleteBody(fragment) ==
    \A line \in {splitlines(fragment)[i] : i \in 1..Len(splitlines(fragment))} :
        StartsWith(line, ObsoletePrefix)

\* a location, flag, previous-id or auto comment
IsDecoration(fragment) ==
    \E c \in {":", ",", "|", "."} : StartsWith(fragment, <<"#", c>>)

\* the fragments are the user comments of message, then body lines that
\* each carry the prefix, from the first id line to a msgstr line, then the
\* separator
IsObsoleteBlock(yielded, message) ==
    LET comments == fragments_of(comment_items(message.user_comments, <<>>),
                                 options.width)
        n == Len(yielded)
        k == Len(comments)
    IN  /\ n >= k + 3
        /\ SubSeq(yielded, 1, k) = comments
        /\ \A i \in 1..k : StartsWith(yielded[i], <<"#", "SP">>)
        /\ \A i \in (k + 1)..(n - 1) : IsObsoleteBody(yielded[i])
        /\ \/ StartsWith(yielded[k + 1], ObsoletePrefix \o KW_msgid)
           \/ StartsWith(yielded[k + 1], ObsoletePrefix \o KW_msgctxt)
        /\ StartsWith(yielded[n - 1], ObsoletePrefix \o KW_msgstr)
        /\ yielded[n] = <<"LF">>
        /\ \A i \in 1..n : ~IsDecoration(yielded[i])

\* C15: fragments of obsolete messages are yielded only after all live
\* messages are through, and never with ignore_obsolete on; each obsolete
\* message is yielded as its user comments and a body with "#~ " before
\* every line, with no location, flag or previous-id comment
C15_ObsoleteLast ==
    [][/\ fragments' # fragments => LiveStep \/ ObsoleteStep
       /\ LiveStep =>
            /\ ~ObsoleteStep
            /\ pending.obsolete = _sort_messages(source.obsolete, options.sort_by)
       /\ ObsoleteStep =>
            /\ pending.live = <<>>
            /\ ~options.ignore_obsolete
            /\ fragments' = fragments \o Yielded
            /\ IsObsoleteBlock(Yielded, Head(pending.obsolete))]_vars

\* C15 happens: after a live message, an obsolete message with locations,
\* flags and a previous id was yielded, previous ids asked for
C15_Witness ==
    /\ pc = "generate"
    /\ source.live # <<>>
    /\ source.obsolete = <<DecoratedMessage>>
    /\ options.include_previous /\ ~options.no_location
    /\ pending = [live |-> <<>>, obsolete |-> <<>>]
    /\ \E i \in 1..Len(fragments) :
           StartsWith(fragments[i], ObsoletePrefix \o KW_msgid)

(***************************************************************************)
(* C16.  The three flags in_msgid, in_msgstr and in_msgctxt of the parser. *)
(***************************************************************************)
\* the flags of the parser that are set
OpenFlags == {f \in {"in_msgid", "in_msgstr", "in_msgctxt"} : self[f]}

\* C16: whatever lines the parser was fed, at most one of in_msgid,
\* in_msgstr and in_msgctxt is true
C16_OneFlag == Cardinality(OpenFlags) <= 1

(***************************************************************************)
(* C17.  The translation of an emitted message and the lines it is built   *)
(* from.                                                                   *)
(***************************************************************************)
\* what a parser that starts at the msgid line of message emits for the
\* lines from there up to the step that finalized the message
FromItsMsgid(message) ==
    LET fresh == parse_lines(NewMachine(self.ignore_obsolete, self.abort_invalid), 0,
                             SubSeq(input, message.lineno, Len(input)))
    IN  fresh.catalog.live \o fresh.catalog.obsolete

\* C17: the translation of every emitted message is built from the msgstr
\* lines and continuation lines after the message's first id line only:
\* it is the translation a parser gives that has read nothing before the
\* msgid line of the message
C17_TranslationAfterId ==
    [][((LineStep \/ EndStep) /\ raised' = NoExc
          /\ Len(AddedLive \o AddedObsolete) = 1) =>
         \E emitted \in {FromItsMsgid((AddedLive \o AddedObsolete)[1])} :
            /\ Len(emitted) = 1
            /\ emitted[1].string = (AddedLive \o AddedObsolete)[1].string
    ]_vars

(***************************************************************************)
(* C18.  The accumulator a continuation line is appended to.               *)
(***************************************************************************)
\* the accumulator the keyword of a line opens: "id", "str", "ctxt", or
\* "none" for a line that is no msgid, msgid_plural, msgctxt or msgstr line
Opens(line) ==
    IF IsBlankLine(line) \/ (IsCommentLine(line) /\ ~IsObsoleteLine(line)) THEN "none"
    ELSE IF Keyword(line) \in {KW_msgid, KW_msgid_plural} THEN "id"
    ELSE IF Keyword(line) = KW_msgctxt THEN "ctxt"
    ELSE IF StartsWith(Keyword(line), KW_msgstr) THEN "str"
    ELSE "none"

\* the accumulator opened by the most recent keyword line of lines
RECURSIVE LastOpened(_)
LastOpened(lines) ==
    IF lines = <<>> THEN "none"
    ELSE IF Opens(lines[Len(lines)]) # "none" THEN Opens(lines[Len(lines)])
    ELSE LastOpened(SubSeq(lines, 1, Len(lines) - 1))

\* a step that reads a continuation line and accepts it
AcceptedContinuation ==
    /\ LineStep
    /\ MessagePart(LineRead) # <<>>
    /\ MessagePart(LineRead)[1] = "DQ"
    /\ raised' = NoExc
    /\ stdout' = stdout

\* the accumulator a step has appended to
AppendedTo ==
    {a \in {"id", "str", "ctxt"} :
        \/ a = "id" /\ self'.messages # self.messages
        \/ a = "str" /\ self'.translations # self.translations
        \/ a = "ctxt" /\ self'.context # self.context}

\* C18: a continuation line that is accepted is appended to the
\* accumulator opened by the most recent msgid, msgid_plural, msgctxt or
\* msgstr keyword line, and to no other
C18_ContinuationTarget ==
    [][AcceptedContinuation => AppendedTo = {LastOpened(input)}]_vars

(***************************************************************************)
(* C19.  One finalization for each msgid line.                             *)
(***************************************************************************)
\* what a line is to the finalization of messages: a msgid line, another
\* line on which parse calls _finish_current_message, or neither
LineKind(line) ==
    IF IsCommentLine(line) /\ ~IsObsoleteLine(line) THEN "finish"
    ELSE LET keyword == Keyword(line)
         IN  IF keyword = KW_msgid THEN "msgid"
             ELSE IF keyword = KW_msgctxt THEN "finish" ELSE "other"

\* the positions of the msgid lines, kinds being the kinds of the lines
MsgidLines(kinds) == {i \in 1..Len(kinds) : kinds[i] = "msgid"}

\* the msgid lines after which parse has come to call
\* _finish_current_message: at a later msgid or msgctxt line or comment,
\* or at the end of the input
Due(kinds, ended) ==
    {i \in MsgidLines(kinds) :
        ended \/ \E j \in (i + 1)..Len(kinds) : kinds[j] # "other"}

\* C19: with abort_invalid off, as long as no line made parse raise, the
\* messages finalized so far are those of the msgid lines that were
\* followed by a msgid or msgctxt line, by a comment or by the end of the
\* input, one finalization for each (counted once, stored once), and when
\* parse returns no message is left in progress
C19_OneFinalization ==
    (~self.abort_invalid /\ pc \in {"parsing", "done"}) =>
        \E kinds \in {[i \in 1..Len(input) |-> LineKind(input[i])]} :
            MsgidLines(kinds) # {} =>
                \E due \in {Due(kinds, pc = "done")} :
                    /\ self.counter = Cardinality(due)
                    /\ ~self.ignore_obsolete =>
                          Len(catalog.live) + Len(catalog.obsolete) = self.counter
                    /\ (self.messages # <<>>) = (due # MsgidLines(kinds))

\* C19 happens: parse returned after two messages, the first finalized by
\* the msgctxt line of the second, with nothing to report
C19_Witness ==
    /\ pc = "done"
    /\ ~self.abort_invalid
    /\ input = <<L_msgid_a, L_msgstr_x, L_msgctxt_c, L_msgid_a>>
    /\ self.counter = 2
    /\ Len(catalog.live) = 2

(***************************************************************************)
(* C20.  Comments and the message in progress.                             *)
(***************************************************************************)
\* the metadata the comments have left in s
Metadata(s) == <<s.locations, s.flags, s.auto_comments, s.user_comments>>

\* a step that reads a comment other than "#~" and gets through it
CommentStep ==
    /\ LineStep
    /\ IsCommentLine(LineRead) /\ ~IsObsoleteLine(LineRead)
    /\ raised' = NoExc

\* the metadata a parser holds that has read nothing but line
MetadataOf(line) ==
    Metadata(parse_line(NewMachine(self.ignore_obsolete, self.abort_invalid),
                        0, line).self)

\* C20: a comment line other than "#~" read while a message is in progress
\* first finalizes that message, with the metadata collected before the
\* comment; what the comment records is kept for the message whose id
\* lines follow.  Every message is emitted with the metadata the parser
\* holds when it is finalized
C20_CommentFinalizes ==
    [][/\ (CommentStep /\ self.messages # <<>>) =>
            /\ self'.counter = self.counter + 1
            /\ Len(AddedLive \o AddedObsolete) = 1
            /\ self'.messages = <<>>
            /\ Metadata(self') = MetadataOf(LineRead)
       /\ ((LineStep \/ EndStep) /\ Len(AddedLive \o AddedObsolete) = 1
             /\ self.messages # <<>>) =>
            Metadata((AddedLive \o AddedObsolete)[1]) = Metadata(self)
    ]_vars

\* C20 happens: a user comment was read after a msgid and its msgstr; the
\* message is in the catalog without the comment, which the parser holds
C20_Witness ==
    /\ pc = "parsing"
    /\ input = <<L_msgid_a, L_msgstr_x, L_user_comment>>
    /\ Len(catalog.live) = 1
    /\ catalog.live[1].user_comments = <<>>
    /\ self.user_comments = << <<"u">> >>
    /\ self.messages = <<>>


(***************************************************************************)
(* C21.  A continuation line outside msgid, msgstr and msgctxt.            *)
(***************************************************************************)
\* a step that reads a continuation line while none of the three flags is
\* set
StrayContinuationStep ==
    /\ LineStep
    /\ MessagePart(LineRead) # <<>>
    /\ MessagePart(LineRead)[1] = "DQ"
    /\ OpenFlags = {}

\* the step reported the problem msg for the line it read: raised with
\* abort_invalid on, printed with its 1-based line number otherwise
Reported(msg) ==
    IF self.abort_invalid
    THEN /\ raised'.type = "PoFileError"
         /\ raised'.msg = msg
         /\ raised'.lineno = Len(input)
         /\ stdout' = stdout
    ELSE /\ raised' = NoExc
         /\ Len(stdout') = Len(stdout) + 1
         /\ SubSeq(stdout', 1, Len(stdout)) = stdout
         /\ stdout'[Len(stdout')].msg = msg
         /\ stdout'[Len(stdout')].lineno = Len(input')

\* what the parser has collected for the message in progress, the three
\* flags and the message counter
Collecting(s) ==
    <<s.messages, s.translations, s.context, s.locations, s.flags,
      s.auto_comments, s.user_comments,
      s.in_msgid, s.in_msgstr, s.in_msgctxt, s.counter>>

\* C21: a continuation line read while none of in_msgid, in_msgstr and
\* in_msgctxt is set is reported as a format problem (raised with
\* abort_invalid on, printed otherwise), and the id fragments, the
\* translations, the context, the locations, the flags, the comments, the
\* three flags, the message counter and the catalog are left as they were
C21_StrayContinuation ==
    [][StrayContinuationStep =>
          /\ Reported(StrayContinuation)
          /\ Collecting(self') = Collecting(self)
          /\ catalog' = catalog
    ]_vars

\* C21 happens: a comment finalized the message before it and the
\* continuation line after the comment was reported, the comment still
\* waiting for the next message
C21_Witness ==
    /\ pc = "parsing"
    /\ input = <<L_msgid_a, L_msgstr_x, L_user_comment, L_continuation>>
    /\ Len(catalog.live) = 1
    /\ Len(stdout) = 1
    /\ stdout[1].msg = StrayContinuation
    /\ stdout[1].lineno = 4
    /\ self.messages = <<>>
    /\ self.user_comments = << <<"u">> >>
    /\ OpenFlags = {}


(***************************************************************************)
(* C22.  The line number of a message.  The runs are over files of blank   *)
(* lines, comments, msgctxt, msgid, msgid_plural and msgstr lines and      *)
(* obsolete msgid lines.                                                   *)
(***************************************************************************)
OffsetLines ==
    {L_blank, L_user_comment, L_msgctxt_c, L_msgid_a, L_msgid_plural_b,
     L_msgstr_x, L_obsolete_msgid}

NextOffset ==
    \/ SkipBlankLine(OffsetLines, MaxLines)
    \/ ProcessComment(OffsetLines, MaxLines)
    \/ ProcessObsoleteLine(OffsetLines, MaxLines)
    \/ ProcessKeywordLine(OffsetLines, MaxLines)
    \/ EndOfInput

SpecOffset == Init /\ [][NextOffset]_vars

\* the 1-based positions of the msgid keyword lines read so far
MsgidPositions == {i \in 1..Len(input) : Keyword(input[i]) = KW_msgid}

\* the argument of the keyword line at position i
Argument(i) == partition(MessagePart(input[i]), "SP")[3]

\* the message in progress was opened by a msgid line: its first id
\* fragment is the argument of one
OpenedByMsgid ==
    /\ self.messages # <<>>
    /\ \E i \in MsgidPositions : self.messages[1] = _NormalizedString(Argument(i))

\* the greatest member of a set of positions
Last(S) == CHOOSE i \in S : \A j \in S : j <= i

\* C22: a message opened by a msgid line is emitted, whatever step
\* finalizes it, with the 1-based position of that line in the input as
\* its line number: the position of the last msgid line read before the
\* step, blank and comment lines counted, and so not the position of a
\* msgctxt, msgid_plural or msgstr line or of the msgid line of an earlier
\* message
C22_MsgidLineNumber ==
    [][((LineStep \/ EndStep) /\ OpenedByMsgid) =>
          \A i \in 1..Len(AddedLive \o AddedObsolete) :
              (AddedLive \o AddedObsolete)[i].lineno = Last(MsgidPositions)
    ]_vars

\* C22 happens: parse returned a plural message with a context, its msgid
\* on the third line after a comment and the msgctxt line, and the message
\* carries the line number 3
C22_Witness ==
    /\ pc = "done"
    /\ input = <<L_user_comment, L_msgctxt_c, L_msgid_a, L_msgid_plural_b>>
    /\ Len(catalog.live) = 1
    /\ catalog.live[1].is_plural
    /\ catalog.live[1].context # <<>>
    /\ catalog.live[1].lineno = 3


(***************************************************************************)
(* C23.  The physical lines normalize writes for a value when it wraps.    *)
(* The runs are those of normalize followed by denormalize, where the      *)
(* prefix is empty.                                                        *)
(***************************************************************************)
\* the lines of a text as a reader of the file sees them
RECURSIVE PhysicalLines(_)
PhysicalLines(t) ==
    IF ~Contains(t, "LF") THEN <<t>>
    ELSE <<partition(t, "LF")[1]>> \o PhysicalLines(partition(t, "LF")[3])

\* the physical lines that hold the value: all but the empty first line
\* of a value written on several lines
ValueLines(t) ==
    IF Contains(t, "LF") THEN Tail(PhysicalLines(t)) ELSE PhysicalLines(t)

\* the word-chunks of the input lines of s
WordChunks(s) ==
    UNION {{WORD_SEP_split(l)[i] : i \in 1..Len(WORD_SEP_split(l))} :
              l \in {splitlines_keep(s)[j] : j \in 1..Len(splitlines_keep(s))}}

\* contents, cut into consecutive groups, give the lines back one by one
RECURSIVE Regrouped(_, _)
Regrouped(contents, lines) ==
    IF lines = <<>> THEN Concat(contents) = <<>>
    ELSE \E k \in 1..Len(contents) :
            /\ Concat(SubSeq(contents, 1, k)) = Head(lines)
            /\ Regrouped(SubSeq(contents, k + 1, Len(contents)), Tail(lines))

\* C23: when a nonempty string was normalized at a positive width, every
\* physical line that holds a part of the value is, with its two quotes,
\* no longer than width, unless it holds a single word-chunk that alone
\* exceeds the limit; and the physical lines of each input line,
\* concatenated in order, give back that input line
C23_WrappedLines ==
    (pc \in {"denormalize", "restored"} /\ width > 0 /\ string # <<>>) =>
        \E physical \in {ValueLines(text)} :
            /\ \A i \in 1..Len(physical) :
                   \/ Len(physical[i]) <= width
                   \/ unescape(physical[i]) \in WordChunks(string)
            /\ Regrouped([i \in 1..Len(physical) |-> unescape(physical[i])],
                         splitlines_keep(string))

=============================================================================
